---------------------------- MODULE Spec2Model ----------------------------
(***************************************************************************)
(* A model of the GPU simulator's memory hierarchy (GPUCache,              *)
(* MemoryHierarchy) and of its TextureCache.                               *)
(*                                                                         *)
(* The geometry of the source is scaled down so that the state space is    *)
(* finite and small.  The scaling keeps the order relations the code       *)
(* relies on:                                                              *)
(*    allocation alignment (16)  <  L1 line (64)  <  L2 line (128),        *)
(*    the deallocation stride (64) equals the L1 line size,                *)
(*    the first allocation address (0x10000000) is aligned to both lines,  *)
(*    VRAM (4 GiB) is far smaller than the range of a 64-bit word,         *)
(*    a texture entry (1 MiB) is a multiple of both line sizes.            *)
(* Every scaled constant names the source value it stands for.             *)
(***************************************************************************)
EXTENDS Integers, Sequences, FiniteSets, TLC

(***************************************************************************)
(* Program constants (scaled).                                             *)
(***************************************************************************)
\* uint64_t / size_t arithmetic is modulo 2^64 in the source; modulo WORD here.
WORD == 64
\* vram_.resize(4 GiB)
VRAM_SIZE == 40
\* next_allocation_address_(0x10000000)
FIRST_ALLOCATION_ADDRESS == 8
\* size = (size + 15) & ~15ULL
ALLOC_ALIGN == 2
\* for (addr = address; addr < address + size; addr += 64)
DEALLOC_STRIDE == 4
\* GPUCache(32 * 1024, 64, 4)
L1_CACHE_SIZE == 16
L1_LINE_SIZE == 4
L1_ASSOCIATIVITY == 2
\* GPUCache(512 * 1024, 128, 8)
L2_CACHE_SIZE == 32
L2_LINE_SIZE == 8
L2_ASSOCIATIVITY == 2

\* TextureCache: texture_size = max(size, 1024 * 1024); size_t texture_size = 1024 * 1024
TEXTURE_SIZE == 8
\* cache_key = (texture_id << 8) | mip_level;  prefetch_key >> 8;  prefetch_key & 0xFF
KEY_SHIFT == 256
\* if (next_mip < 16)
MIP_LIMIT == 16
\* DEFAULT_PATTERN_HISTORY_SIZE = 1000
DEFAULT_PATTERN_HISTORY_SIZE == 3
\* max_history_size_(1000)
MAX_HISTORY_SIZE == 3
\* DEFAULT_OPTIMIZATION_INTERVAL = 100 (milliseconds)
DEFAULT_OPTIMIZATION_INTERVAL == 100
\* DEFAULT_PREFETCH_AGGRESSIVENESS = 0.7f, DEFAULT_EVICTION_THRESHOLD = 0.8f,
\* in hundredths
DEFAULT_PREFETCH_AGGRESSIVENESS == 70
DEFAULT_EVICTION_THRESHOLD == 80
\* The clock of the model ticks in milliseconds: the 1000000.0f microseconds
\* of calculate_priority_score are 1000 ticks.
SECOND == 1000

(***************************************************************************)
(* Bounds of the model.                                                    *)
(***************************************************************************)
\* operations performed on the stand-alone GPUCache
MaxCacheOps == 4
\* operations performed on the MemoryHierarchy
MaxMemOps == 4
\* operations performed on the TextureCache
MaxTexOps == 2
\* times the clock advances between two operations
MaxTicks == 1
\* Operations on the stand-alone PerformanceMonitor
MaxMonOps == 5
MaxTunes == 7
\* TextureCache(cache_size_mb): the capacity, in texture sizes
CacheSizeMb == 1

Min(a, b) == IF a < b THEN a ELSE b
Max(a, b) == IF a > b THEN a ELSE b

\* address & ~(line_size - 1), line_size a power of two
AlignDown(address, line_size) == address - (address % line_size)

\* n copies of byte v: the payload of a request
Fill(n, v) == [i \in 1..n |-> v]

(***************************************************************************)
(* CacheLine and GPUCache.  A set is a sequence of `associativity' slots;  *)
(* a slot is a null pointer (present = FALSE) or a CacheLine.              *)
(***************************************************************************)
NullLine(line_size) ==
    [present |-> FALSE, address |-> 0, data |-> [i \in 0..(line_size - 1) |-> 0],
     valid |-> FALSE, dirty |-> FALSE, access_time |-> 0]

CacheLine(addr, line_size) ==
    [present |-> TRUE, address |-> addr, data |-> [i \in 0..(line_size - 1) |-> 0],
     valid |-> FALSE, dirty |-> FALSE, access_time |-> 0]

GPUCache(cache_size, line_size, associativity) ==
    LET num_sets == cache_size \div (line_size * associativity)
    IN  [cache_size |-> cache_size, line_size |-> line_size,
         associativity |-> associativity, num_sets |-> num_sets,
         cache_sets |-> [s \in 0..(num_sets - 1) |->
                            [i \in 1..associativity |-> NullLine(line_size)]],
         hit_count |-> 0, miss_count |-> 0, access_count |-> 0]

get_set_index(c, address) == (address \div c.line_size) % c.num_sets

get_tag(c, address) == address \div (c.line_size * c.num_sets)

\* The slot find_line returns (0: nullptr): the first valid line of the set
\* whose address is the aligned request address.
find_slot(c, address) ==
    LET set == c.cache_sets[get_set_index(c, address)]
        hits == {i \in 1..c.associativity :
                    /\ set[i].present
                    /\ set[i].valid
                    /\ set[i].address = AlignDown(address, c.line_size)}
    IN  IF hits = {} THEN 0 ELSE CHOOSE i \in hits : \A j \in hits : i <= j

\* find_line's side effect on the line it returns: line->access_time = access_count_
find_line(c, address) ==
    LET s == get_set_index(c, address)
        i == find_slot(c, address)
    IN  IF i = 0 THEN c
        ELSE [c EXCEPT !.cache_sets[s][i].access_time = c.access_count]

\* A slip: with no free slot the first slot of the set is replaced.
victim_slot_first(c, address) ==
    LET set == c.cache_sets[get_set_index(c, address)]
        free == {i \in 1..c.associativity : ~set[i].present \/ ~set[i].valid}
    IN  IF free # {} THEN CHOOSE i \in free : \A j \in free : i <= j
        ELSE 1

\* The slot allocate_line replaces: the first null or invalid slot, otherwise
\* the first slot with the smallest access_time (std::min_element).
victim_slot(c, address) ==
    LET set == c.cache_sets[get_set_index(c, address)]
        free == {i \in 1..c.associativity : ~set[i].present \/ ~set[i].valid}
        lru == {i \in 1..c.associativity :
                   \A j \in 1..c.associativity :
                       /\ set[j].access_time >= set[i].access_time
                       /\ (set[j].access_time = set[i].access_time => i <= j)}
    IN  IF free # {} THEN CHOOSE i \in free : \A j \in free : i <= j
        ELSE CHOOSE i \in lru : TRUE

\* A slip: the new line keeps the request address instead of the line base.
allocate_line_unaligned(c, address) ==
    LET s == get_set_index(c, address)
        i == victim_slot(c, address)
        fresh == [CacheLine(address, c.line_size)
                     EXCEPT !.valid = TRUE, !.access_time = c.access_count]
    IN  [c EXCEPT !.cache_sets[s][i] = fresh]

allocate_line(c, address) ==
    LET s == get_set_index(c, address)
        i == victim_slot(c, address)
        fresh == [CacheLine(AlignDown(address, c.line_size), c.line_size)
                     EXCEPT !.valid = TRUE, !.access_time = c.access_count]
    IN  [c EXCEPT !.cache_sets[s][i] = fresh]

\* GPUCache::read.  buf is the caller's buffer (Len(buf) = size).
\* Result: the cache afterwards, the return value and the buffer afterwards.
\* A slip: a read miss is not counted.
cache_read_miss_uncounted(c) == c

\* The miss path of GPUCache::read
cache_read_miss(c) == [c EXCEPT !.miss_count = @ + 1]

\* A slip: a read that misses installs the line, as a write does.
cache_read_filling(c, address, buf) ==
    LET c1 == [c EXCEPT !.access_count = (@ + 1)]
        i == find_slot(c1, address)
        c2 == find_line(c1, address)
        s == get_set_index(c, address)
        offset == address % c.line_size
        copy_size == Min(Len(buf), c.line_size - offset)
    IN  IF i # 0
        THEN [cache |-> [c2 EXCEPT !.hit_count = @ + 1],
              ok |-> TRUE,
              buf |-> [k \in 1..Len(buf) |->
                          IF k <= copy_size
                          THEN c2.cache_sets[s][i].data[offset + k - 1]
                          ELSE buf[k]]]
        ELSE [cache |-> cache_read_miss(allocate_line(c2, address)),
              ok |-> FALSE, buf |-> buf]

\* GPUCache::read
cache_read(c, address, buf) ==
    LET c1 == [c EXCEPT !.access_count = (@ + 1)]
        i == find_slot(c1, address)
        c2 == find_line(c1, address)
        s == get_set_index(c, address)
        offset == address % c.line_size
        copy_size == Min(Len(buf), c.line_size - offset)
    IN  IF i # 0
        THEN [cache |-> [c2 EXCEPT !.hit_count = @ + 1],
              ok |-> TRUE,
              buf |-> [k \in 1..Len(buf) |->
                          IF k <= copy_size
                          THEN c2.cache_sets[s][i].data[offset + k - 1]
                          ELSE buf[k]]]
        ELSE [cache |-> cache_read_miss(c2), ok |-> FALSE, buf |-> buf]

\* A slip: the bytes are stored from the start of the line.
cache_write_at_line_start(c, address, data) ==
    LET c1 == [c EXCEPT !.access_count = (@ + 1)]
        found == find_slot(c1, address)
        c2 == IF found = 0
              THEN [allocate_line(c1, address) EXCEPT !.miss_count = @ + 1]
              ELSE [find_line(c1, address) EXCEPT !.hit_count = @ + 1]
        s == get_set_index(c, address)
        i == IF found = 0 THEN victim_slot(c1, address) ELSE found
        offset == address % c.line_size
        copy_size == Min(Len(data), c.line_size - offset)
    IN  [c2 EXCEPT !.cache_sets[s][i].data =
                       [b \in 0..(c.line_size - 1) |->
                           IF b < copy_size THEN data[b + 1] ELSE @[b]],
                   !.cache_sets[s][i].dirty = TRUE]

\* GPUCache::write.  Always returns true.
cache_write(c, address, data) ==
    LET c1 == [c EXCEPT !.access_count = (@ + 1)]
        found == find_slot(c1, address)
        c2 == IF found = 0
              THEN [allocate_line(c1, address) EXCEPT !.miss_count = @ + 1]
              ELSE [find_line(c1, address) EXCEPT !.hit_count = @ + 1]
        s == get_set_index(c, address)
        i == IF found = 0 THEN victim_slot(c1, address) ELSE found
        offset == address % c.line_size
        copy_size == Min(Len(data), c.line_size - offset)
    IN  [c2 EXCEPT !.cache_sets[s][i].data =
                       [b \in 0..(c.line_size - 1) |->
                           IF b >= offset /\ b < offset + copy_size
                           THEN data[b - offset + 1] ELSE @[b]],
                   !.cache_sets[s][i].dirty = TRUE]

\* GPUCache::invalidate
cache_invalidate(c, address) ==
    LET i == find_slot(c, address)
        s == get_set_index(c, address)
    IN  IF i = 0 THEN c
        ELSE [find_line(c, address) EXCEPT !.cache_sets[s][i].valid = FALSE,
                                           !.cache_sets[s][i].dirty = FALSE]

\* GPUCache::flush
cache_flush(c) ==
    [c EXCEPT !.cache_sets =
        [s \in DOMAIN c.cache_sets |->
            [i \in 1..c.associativity |->
                IF c.cache_sets[s][i].present
                THEN [c.cache_sets[s][i] EXCEPT !.valid = FALSE, !.dirty = FALSE]
                ELSE c.cache_sets[s][i]]]]

(***************************************************************************)
(* MemoryHierarchy: L1, L2, VRAM, the bump allocator and its records.      *)
(***************************************************************************)
MemoryHierarchy ==
    [l1_cache |-> GPUCache(L1_CACHE_SIZE, L1_LINE_SIZE, L1_ASSOCIATIVITY),
     l2_cache |-> GPUCache(L2_CACHE_SIZE, L2_LINE_SIZE, L2_ASSOCIATIVITY),
     vram |-> [x \in 0..(VRAM_SIZE - 1) |-> 0],
     next_allocation_address |-> FIRST_ALLOCATION_ADDRESS,
     allocations |-> <<>>]

\* address + size <= vram_.size(), the sum taken in 64-bit arithmetic
in_vram(address, size) == (address + size) % WORD <= VRAM_SIZE

\* std::memcpy(data, vram_.data() + address, size)
vram_load(m, address, size) == [k \in 1..size |-> m.vram[address + k - 1]]

\* std::memcpy(vram_.data() + address, data, size)
vram_store(m, address, data) ==
    [m EXCEPT !.vram = [x \in 0..(VRAM_SIZE - 1) |->
                           IF x >= address /\ x < address + Len(data)
                           THEN data[x - address + 1] ELSE @[x]]]

\* A slip: a read served by L2 or by VRAM does not load the line into L1.
mem_read_no_l1_fill(m, address, buf) ==
    LET r1 == cache_read(m.l1_cache, address, buf)
        r2 == cache_read(m.l2_cache, address, buf)
        fromvram == vram_load(m, address, Len(buf))
    IN  IF r1.ok
        THEN [mem |-> [m EXCEPT !.l1_cache = r1.cache], ok |-> TRUE, buf |-> r1.buf]
        ELSE IF r2.ok
        THEN [mem |-> [m EXCEPT !.l1_cache = r1.cache, !.l2_cache = r2.cache],
              ok |-> TRUE, buf |-> r2.buf]
        ELSE IF in_vram(address, Len(buf))
        THEN [mem |-> [m EXCEPT !.l2_cache = cache_write(r2.cache, address, fromvram),
                                !.l1_cache = r1.cache],
              ok |-> TRUE, buf |-> fromvram]
        ELSE [mem |-> [m EXCEPT !.l1_cache = r1.cache, !.l2_cache = r2.cache],
              ok |-> FALSE, buf |-> buf]

\* MemoryHierarchy::read.  Result: the hierarchy afterwards, the return value,
\* the buffer afterwards.
mem_read(m, address, buf) ==
    LET r1 == cache_read(m.l1_cache, address, buf)
        r2 == cache_read(m.l2_cache, address, buf)
        fromvram == vram_load(m, address, Len(buf))
    IN  IF r1.ok
        THEN [mem |-> [m EXCEPT !.l1_cache = r1.cache], ok |-> TRUE, buf |-> r1.buf]
        ELSE IF r2.ok
        THEN [mem |-> [m EXCEPT !.l1_cache = cache_write(r1.cache, address, r2.buf),
                                !.l2_cache = r2.cache],
              ok |-> TRUE, buf |-> r2.buf]
        ELSE IF in_vram(address, Len(buf))
        THEN [mem |-> [m EXCEPT !.l2_cache = cache_write(r2.cache, address, fromvram),
                                !.l1_cache = cache_write(r1.cache, address, fromvram)],
              ok |-> TRUE, buf |-> fromvram]
        ELSE [mem |-> [m EXCEPT !.l1_cache = r1.cache, !.l2_cache = r2.cache],
              ok |-> FALSE, buf |-> buf]

\* A slip: the bound is checked before anything is written.
mem_write_checked_first(m, address, data) ==
    LET m1 == [m EXCEPT !.l1_cache = cache_write(@, address, data),
                        !.l2_cache = cache_write(@, address, data)]
    IN  IF in_vram(address, Len(data))
        THEN [mem |-> vram_store(m1, address, data), ok |-> TRUE]
        ELSE [mem |-> m, ok |-> FALSE]

\* MemoryHierarchy::write: write-through to L1, L2 and (if in bounds) VRAM.
mem_write(m, address, data) ==
    LET m1 == [m EXCEPT !.l1_cache = cache_write(@, address, data),
                        !.l2_cache = cache_write(@, address, data)]
    IN  IF in_vram(address, Len(data))
        THEN [mem |-> vram_store(m1, address, data), ok |-> TRUE]
        ELSE [mem |-> m1, ok |-> FALSE]

\* size = (size + 15) & ~15ULL, in 64-bit arithmetic
aligned_size(size) == AlignDown((size + ALLOC_ALIGN - 1) % WORD, ALLOC_ALIGN)

\* MemoryHierarchy::allocate.  Result: the hierarchy afterwards, the address
\* returned, and whether the call took the success path.
mem_allocate(m, size) ==
    LET address == m.next_allocation_address
        asize == aligned_size(size)
    IN  IF (address + asize) % WORD > VRAM_SIZE
        THEN [mem |-> m, ret |-> 0, ok |-> FALSE]
        ELSE [mem |-> [m EXCEPT
                         !.allocations = [x \in (DOMAIN @) \cup {address} |->
                                             IF x = address THEN asize ELSE @[x]],
                         !.next_allocation_address = (@ + asize) % WORD],
              ret |-> address, ok |-> TRUE]

\* The loop of deallocate from addr on: invalidate the line of addr in L1 and
\* in L2, then step by the stride, while addr < end.
RECURSIVE invalidate_range(_, _, _)
invalidate_range(m, addr, end) ==
    IF addr < end
    THEN invalidate_range(
             [m EXCEPT !.l1_cache = cache_invalidate(@, addr),
                       !.l2_cache = cache_invalidate(@, addr)],
             addr + DEALLOC_STRIDE, end)
    ELSE m

\* MemoryHierarchy::deallocate
mem_deallocate(m, address) ==
    IF address \in DOMAIN m.allocations
    THEN LET size == m.allocations[address]
             m1 == invalidate_range(m, address, (address + size) % WORD)
         IN  [m1 EXCEPT !.allocations =
                            [x \in (DOMAIN @) \ {address} |-> @[x]]]
    ELSE m

\* MemoryHierarchy::flush_all_caches
mem_flush_all_caches(m) ==
    [m EXCEPT !.l1_cache = cache_flush(@), !.l2_cache = cache_flush(@)]

(***************************************************************************)
(* TextureCache.  The model is of a cache initialized without a            *)
(* PerformanceMonitor (perf_monitor_ == nullptr): the monitor is a sink    *)
(* whose state the cache never reads.  Times are clock ticks; float        *)
(* parameters are kept in hundredths; scores are compared exactly.         *)
(***************************************************************************)
RECURSIVE BitOr(_, _)
BitOr(a, b) ==
    IF a = 0 THEN b
    ELSE IF b = 0 THEN a
    ELSE (IF a % 2 = 1 \/ b % 2 = 1 THEN 1 ELSE 0) + 2 * BitOr(a \div 2, b \div 2)

\* uint64_t cache_key = (texture_id << 8) | mip_level;
cache_key(texture_id, mip_level) == BitOr(texture_id * KEY_SHIFT, mip_level)

MapPut(f, k, v) == [x \in (DOMAIN f) \cup {k} |-> IF x = k THEN v ELSE f[x]]
MapRemove(f, k) == [x \in (DOMAIN f) \ {k} |-> f[x]]

TextureCacheEntry(id, mip, addr, size) ==
    [texture_id |-> id, mip_level |-> mip, address |-> addr,
     data |-> [i \in 1..size |-> 0],
     last_access_time |-> 0, access_count |-> 0, is_prefetched |-> FALSE]

CacheMetrics ==
    [cache_hits |-> 0, cache_misses |-> 0, prefetch_hits |-> 0,
     prefetch_misses |-> 0, bytes_transferred |-> 0]

\* TextureCache::TextureCache(cache_size_mb), constructed at time t
TextureCache(cache_size_mb, t) ==
    [max_cache_size_bytes |-> cache_size_mb * TEXTURE_SIZE,
     current_cache_size_bytes |-> 0,
     cache_entries |-> <<>>,
     prefetch_queue |-> <<>>,
     smart_prefetching_enabled |-> TRUE,
     adaptive_caching_enabled |-> TRUE,
     recent_accesses |-> <<>>,
     max_pattern_history |-> DEFAULT_PATTERN_HISTORY_SIZE,
     metrics |-> CacheMetrics,
     last_optimization_time |-> t,
     prefetch_aggressiveness |-> DEFAULT_PREFETCH_AGGRESSIVENESS,
     eviction_threshold |-> DEFAULT_EVICTION_THRESHOLD,
     optimization_interval_ms |-> DEFAULT_OPTIMIZATION_INTERVAL]

\* 1000 * ln(1 + access_count), rounded (ln 4 = 2 ln 2 kept exact)
LN1000 == <<693, 1099, 1386, 1609, 1792, 1946, 2079, 2197, 2303, 2398>>
frequency_score(access_count) ==
    IF access_count = 0 THEN 0 ELSE LN1000[Min(access_count, Len(LN1000))]

\* calculate_priority_score(a) < calculate_priority_score(b) at time t, with
\* score = 1 / (1 + age / SECOND) * ln(1 + access_count) * (0.5 or 1.0)
score_less(a, b, t) ==
    frequency_score(a.access_count) * (IF a.is_prefetched THEN 1 ELSE 2)
            * (SECOND + (t - b.last_access_time))
      < frequency_score(b.access_count) * (IF b.is_prefetched THEN 1 ELSE 2)
            * (SECOND + (t - a.last_access_time))

\* A slip: any resident entry may be the victim.
any_entry(tc, t) == DOMAIN tc.cache_entries

\* The keys std::min_element may return: the map's iteration order is
\* unspecified, so any entry with a minimal score.
least_valuable(tc, t) ==
    {k \in DOMAIN tc.cache_entries :
        \A j \in DOMAIN tc.cache_entries :
            ~score_less(tc.cache_entries[j], tc.cache_entries[k], t)}

\* The body of evict_least_valuable_entry for the entry chosen, on the pair
\* st = [tc, mem] of the cache and its memory hierarchy.
evict_entry(st, k) ==
    [tc |-> [st.tc EXCEPT
                !.current_cache_size_bytes = @ - Len(st.tc.cache_entries[k].data),
                !.cache_entries = MapRemove(@, k)],
     mem |-> mem_deallocate(st.mem, st.tc.cache_entries[k].address)]

\* The eviction loop of allocate_entry: every state it may end in.
RECURSIVE evict_until_fits(_, _, _)
evict_until_fits(st, size, t) ==
    IF /\ st.tc.current_cache_size_bytes + size > st.tc.max_cache_size_bytes
       /\ DOMAIN st.tc.cache_entries # {}
    THEN UNION {evict_until_fits(evict_entry(st, k), size, t) :
                    k \in least_valuable(st.tc, t)}
    ELSE {st}

\* What allocate_entry does after the eviction loop.
insert_entry(st, texture_id, mip_level, address, size) ==
    [st EXCEPT
        !.tc.cache_entries =
            MapPut(@, cache_key(texture_id, mip_level),
                   TextureCacheEntry(texture_id, mip_level, address, size)),
        !.tc.current_cache_size_bytes = @ + size]

\* A slip: the new entry is inserted without the eviction loop.
allocate_entry_no_eviction(st, texture_id, mip_level, address, size, t) ==
    {insert_entry(st, texture_id, mip_level, address, size)}

\* TextureCache::allocate_entry: every state it may end in.
allocate_entry(st, texture_id, mip_level, address, size, t) ==
    {insert_entry(s, texture_id, mip_level, address, size) :
        s \in evict_until_fits(st, size, t)}

\* A slip: the request is serviced without asking whether the key is resident.
prefetch_texture_unchecked(st, texture_id, mip_level, t) ==
    LET key == cache_key(texture_id, mip_level)
        queue == Append(st.tc.prefetch_queue, key)
        prefetch_key == Head(queue)
        st1 == [st EXCEPT !.tc.prefetch_queue = Tail(queue)]
        prefetch_texture_id == prefetch_key \div KEY_SHIFT
        prefetch_mip == prefetch_key % KEY_SHIFT
        a == mem_allocate(st1.mem, TEXTURE_SIZE)
        st2 == [st1 EXCEPT !.mem = a.mem]
        k2 == cache_key(prefetch_texture_id, prefetch_mip)
    IN  IF a.ret = 0 THEN {st2}
        ELSE {LET r == mem_read(s.mem, a.ret, s.tc.cache_entries[k2].data)
              IN  [s EXCEPT !.mem = r.mem,
                            !.tc.cache_entries[k2].data = r.buf,
                            !.tc.cache_entries[k2].is_prefetched = TRUE,
                            !.tc.metrics.bytes_transferred = @ + TEXTURE_SIZE]
              : s \in allocate_entry(st2, prefetch_texture_id, prefetch_mip,
                                     a.ret, TEXTURE_SIZE, t)}

\* TextureCache::prefetch_texture: every state it may end in.
prefetch_texture(st, texture_id, mip_level, t) ==
    LET key == cache_key(texture_id, mip_level)
        queue == Append(st.tc.prefetch_queue, key)
        prefetch_key == Head(queue)
        st1 == [st EXCEPT !.tc.prefetch_queue = Tail(queue)]
        prefetch_texture_id == prefetch_key \div KEY_SHIFT
        prefetch_mip == prefetch_key % KEY_SHIFT
        a == mem_allocate(st1.mem, TEXTURE_SIZE)
        st2 == [st1 EXCEPT !.mem = a.mem]
        k2 == cache_key(prefetch_texture_id, prefetch_mip)
    IN  IF key \in DOMAIN st.tc.cache_entries THEN {st}
        ELSE IF a.ret = 0 THEN {st2}
        ELSE {LET r == mem_read(s.mem, a.ret, s.tc.cache_entries[k2].data)
              IN  [s EXCEPT !.mem = r.mem,
                            !.tc.cache_entries[k2].data = r.buf,
                            !.tc.cache_entries[k2].is_prefetched = TRUE,
                            !.tc.metrics.bytes_transferred = @ + TEXTURE_SIZE]
              : s \in allocate_entry(st2, prefetch_texture_id, prefetch_mip,
                                     a.ret, TEXTURE_SIZE, t)}

predict_future_accesses_from_two(st, t) ==
    LET n == Len(st.tc.recent_accesses)
        last_access == st.tc.recent_accesses[n]
        prev_access == st.tc.recent_accesses[n - 1]
    IN  IF n < 2 THEN {st}
        ELSE IF prev_access.texture_id = last_access.texture_id
        THEN IF last_access.mip_level + 1 < MIP_LIMIT
             THEN prefetch_texture(st, last_access.texture_id,
                                   last_access.mip_level + 1, t)
             ELSE {st}
        ELSE IF last_access.texture_id = prev_access.texture_id + 1
        THEN prefetch_texture(st, last_access.texture_id + 1,
                              last_access.mip_level, t)
        ELSE {st}

\* TextureCache::predict_future_accesses: every state it may end in.
predict_future_accesses(st, t) ==
    LET n == Len(st.tc.recent_accesses)
        last_access == st.tc.recent_accesses[n]
        prev_access == st.tc.recent_accesses[n - 1]
    IN  IF n < 3 THEN {st}
        ELSE IF prev_access.texture_id = last_access.texture_id
        THEN IF last_access.mip_level + 1 < MIP_LIMIT
             THEN prefetch_texture(st, last_access.texture_id,
                                   last_access.mip_level + 1, t)
             ELSE {st}
        ELSE IF last_access.texture_id = prev_access.texture_id + 1
        THEN prefetch_texture(st, last_access.texture_id + 1,
                              last_access.mip_level, t)
        ELSE {st}

tune_performance_parameters_unclamped(tc) ==
    LET hits == tc.metrics.cache_hits
        total == Max(1, tc.metrics.cache_hits + tc.metrics.cache_misses)
        phits == tc.metrics.prefetch_hits
        ptotal == Max(1, tc.metrics.prefetch_hits + tc.metrics.prefetch_misses)
    IN  [tc EXCEPT
            !.prefetch_aggressiveness =
                IF 10 * phits > 7 * ptotal THEN @ + 10
                ELSE IF 10 * phits < 3 * ptotal THEN @ - 10
                ELSE @,
            !.eviction_threshold =
                IF 10 * hits > 9 * total THEN @ + 5
                ELSE IF 10 * hits < 7 * total THEN @ - 5
                ELSE @]

\* TextureCache::tune_performance_parameters.
\* hit_rate = hits / max(1, hits + misses), compared with 0.9 and 0.7;
\* prefetch_efficiency likewise, compared with 0.7 and 0.3.
tune_performance_parameters(tc) ==
    LET hits == tc.metrics.cache_hits
        total == Max(1, tc.metrics.cache_hits + tc.metrics.cache_misses)
        phits == tc.metrics.prefetch_hits
        ptotal == Max(1, tc.metrics.prefetch_hits + tc.metrics.prefetch_misses)
    IN  [tc EXCEPT
            !.prefetch_aggressiveness =
                IF 10 * phits > 7 * ptotal THEN Min(100, @ + 10)
                ELSE IF 10 * phits < 3 * ptotal THEN Max(10, @ - 10)
                ELSE @,
            !.eviction_threshold =
                IF 10 * hits > 9 * total THEN Min(90, @ + 5)
                ELSE IF 10 * hits < 7 * total THEN Max(50, @ - 5)
                ELSE @]

\* The "Trigger adaptive optimization" block of read_texture
adaptive_optimization(tc, t) ==
    IF /\ tc.adaptive_caching_enabled
       /\ t - tc.last_optimization_time >= tc.optimization_interval_ms
    THEN [tune_performance_parameters(tc) EXCEPT !.last_optimization_time = t]
    ELSE tc

\* TextureCache::reset_metrics: metrics_ = CacheMetrics{}
reset_metrics(tc) ==
    [tc EXCEPT !.metrics = [cache_hits |-> 0, cache_misses |-> 0,
                            prefetch_hits |-> 0, prefetch_misses |-> 0,
                            bytes_transferred |-> 0]]

\* The slice [offset, offset + Len(buf)) of data copied into buf
copy_slice(data, offset, buf) == [k \in 1..Len(buf) |-> data[offset + k]]

\* A slip: a failed allocation is not reported to the caller.
read_texture_miss_counted_twice(st, texture_id, mip_level, offset, buf, t) ==
    LET st1 == [st EXCEPT !.tc.metrics.cache_misses = @ + 2]
        texture_size == Max(Len(buf), TEXTURE_SIZE)
        a == mem_allocate(st1.mem, texture_size)
        r == mem_read(a.mem, a.ret, [i \in 1..texture_size |-> 0])
        key == cache_key(texture_id, mip_level)
    IN  IF a.ret = 0
        THEN {[st |-> [st1 EXCEPT !.mem = a.mem], ok |-> FALSE, buf |-> buf]}
        ELSE IF ~r.ok
        THEN {[st |-> [st1 EXCEPT !.mem = mem_deallocate(r.mem, a.ret)],
               ok |-> FALSE, buf |-> buf]}
        ELSE {[st |-> [s EXCEPT
                        !.tc = adaptive_optimization(
                                 [@ EXCEPT
                                    !.cache_entries[key].data = r.buf,
                                    !.cache_entries[key].last_access_time = t,
                                    !.cache_entries[key].access_count = 1,
                                    !.cache_entries[key].is_prefetched = FALSE,
                                    !.metrics.bytes_transferred = @ + texture_size],
                                 t)],
                ok |-> TRUE,
                buf |-> IF offset + Len(buf) <= Len(r.buf)
                        THEN copy_slice(r.buf, offset, buf) ELSE buf]
              : s \in allocate_entry([st1 EXCEPT !.mem = r.mem], texture_id,
                                     mip_level, a.ret, texture_size, t)}

read_texture_miss_unreported(st, texture_id, mip_level, offset, buf, t) ==
    LET st1 == [st EXCEPT !.tc.metrics.cache_misses = @ + 1]
        texture_size == Max(Len(buf), TEXTURE_SIZE)
        a == mem_allocate(st1.mem, texture_size)
        r == mem_read(a.mem, a.ret, [i \in 1..texture_size |-> 0])
        key == cache_key(texture_id, mip_level)
    IN  IF a.ret = 0
        THEN {[st |-> [st1 EXCEPT !.mem = a.mem], ok |-> TRUE, buf |-> buf]}
        ELSE IF ~r.ok
        THEN {[st |-> [st1 EXCEPT !.mem = mem_deallocate(r.mem, a.ret)],
               ok |-> FALSE, buf |-> buf]}
        ELSE {[st |-> [s EXCEPT
                        !.tc = adaptive_optimization(
                                 [@ EXCEPT
                                    !.cache_entries[key].data = r.buf,
                                    !.cache_entries[key].last_access_time = t,
                                    !.cache_entries[key].access_count = 1,
                                    !.cache_entries[key].is_prefetched = FALSE,
                                    !.metrics.bytes_transferred = @ + texture_size],
                                 t)],
                ok |-> TRUE,
                buf |-> IF offset + Len(buf) <= Len(r.buf)
                        THEN copy_slice(r.buf, offset, buf) ELSE buf]
              : s \in allocate_entry([st1 EXCEPT !.mem = r.mem], texture_id,
                                     mip_level, a.ret, texture_size, t)}

\* The miss path of read_texture ("Cache miss - load from memory" on).
\* Result: every [st, ok, buf] it may end in.
read_texture_miss(st, texture_id, mip_level, offset, buf, t) ==
    LET st1 == [st EXCEPT !.tc.metrics.cache_misses = @ + 1]
        texture_size == Max(Len(buf), TEXTURE_SIZE)
        a == mem_allocate(st1.mem, texture_size)
        r == mem_read(a.mem, a.ret, [i \in 1..texture_size |-> 0])
        key == cache_key(texture_id, mip_level)
    IN  IF a.ret = 0
        THEN {[st |-> [st1 EXCEPT !.mem = a.mem], ok |-> FALSE, buf |-> buf]}
        ELSE IF ~r.ok
        THEN {[st |-> [st1 EXCEPT !.mem = mem_deallocate(r.mem, a.ret)],
               ok |-> FALSE, buf |-> buf]}
        ELSE {[st |-> [s EXCEPT
                        !.tc = adaptive_optimization(
                                 [@ EXCEPT
                                    !.cache_entries[key].data = r.buf,
                                    !.cache_entries[key].last_access_time = t,
                                    !.cache_entries[key].access_count = 1,
                                    !.cache_entries[key].is_prefetched = FALSE,
                                    !.metrics.bytes_transferred = @ + texture_size],
                                 t)],
                ok |-> TRUE,
                buf |-> IF offset + Len(buf) <= Len(r.buf)
                        THEN copy_slice(r.buf, offset, buf) ELSE buf]
              : s \in allocate_entry([st1 EXCEPT !.mem = r.mem], texture_id,
                                     mip_level, a.ret, texture_size, t)}

\* A slip: the lookup is skipped and every read is served as a miss.
read_texture_unbounded_history(st, texture_id, mip_level, offset, buf, t) ==
    LET history == st.tc.recent_accesses
        pattern == [texture_id |-> texture_id, mip_level |-> mip_level,
                    timestamp |-> t]
        st1 == [st EXCEPT !.tc.recent_accesses =
                   Append(history, pattern)]
        key == cache_key(texture_id, mip_level)
        found == key \in DOMAIN st.tc.cache_entries
        st2 == IF found
               THEN [st1 EXCEPT !.tc.cache_entries[key].last_access_time = t,
                                !.tc.cache_entries[key].access_count = @ + 1]
               ELSE st1
    IN  IF found /\ offset + Len(buf) <= Len(st.tc.cache_entries[key].data)
        THEN LET entry == st2.tc.cache_entries[key]
                 st3 == [st2 EXCEPT
                            !.tc.metrics.cache_hits = @ + 1,
                            !.tc.metrics.prefetch_hits =
                                IF entry.is_prefetched THEN @ + 1 ELSE @]
             IN  {[st |-> s, ok |-> TRUE, buf |-> copy_slice(entry.data, offset, buf)]
                  : s \in IF st3.tc.smart_prefetching_enabled
                          THEN predict_future_accesses(st3, t) ELSE {st3}}
        ELSE read_texture_miss(st2, texture_id, mip_level, offset, buf, t)

read_texture_resident_hit(st, texture_id, mip_level, offset, buf, t) ==
    LET history == st.tc.recent_accesses
        pattern == [texture_id |-> texture_id, mip_level |-> mip_level,
                    timestamp |-> t]
        st1 == [st EXCEPT !.tc.recent_accesses =
                   Append(IF Len(history) >= st.tc.max_pattern_history
                          THEN Tail(history) ELSE history, pattern)]
        key == cache_key(texture_id, mip_level)
        found == key \in DOMAIN st.tc.cache_entries
        st2 == IF found
               THEN [st1 EXCEPT !.tc.cache_entries[key].last_access_time = t,
                                !.tc.cache_entries[key].access_count = @ + 1]
               ELSE st1
    IN  IF found
        THEN LET entry == st2.tc.cache_entries[key]
                 st3 == [st2 EXCEPT
                            !.tc.metrics.cache_hits = @ + 1,
                            !.tc.metrics.prefetch_hits =
                                IF entry.is_prefetched THEN @ + 1 ELSE @]
             IN  {[st |-> s, ok |-> TRUE, buf |-> IF offset + Len(buf) <= Len(entry.data)
                                         THEN copy_slice(entry.data, offset, buf) ELSE buf]
                  : s \in IF st3.tc.smart_prefetching_enabled
                          THEN predict_future_accesses(st3, t) ELSE {st3}}
        ELSE read_texture_miss(st2, texture_id, mip_level, offset, buf, t)

read_texture_counting_prefetch_misses(st, texture_id, mip_level, offset, buf, t) ==
    LET history == st.tc.recent_accesses
        pattern == [texture_id |-> texture_id, mip_level |-> mip_level,
                    timestamp |-> t]
        st1 == [st EXCEPT !.tc.recent_accesses =
                   Append(IF Len(history) >= st.tc.max_pattern_history
                          THEN Tail(history) ELSE history, pattern)]
        key == cache_key(texture_id, mip_level)
        found == key \in DOMAIN st.tc.cache_entries
        st2 == IF found
               THEN [st1 EXCEPT !.tc.cache_entries[key].last_access_time = t,
                                !.tc.cache_entries[key].access_count = @ + 1]
               ELSE st1
    IN  IF found /\ offset + Len(buf) <= Len(st.tc.cache_entries[key].data)
        THEN LET entry == st2.tc.cache_entries[key]
                 st3 == [st2 EXCEPT
                            !.tc.metrics.cache_hits = @ + 1,
                            !.tc.metrics.prefetch_hits =
                                IF entry.is_prefetched THEN @ + 1 ELSE @,
                            !.tc.metrics.prefetch_misses =
                                IF entry.is_prefetched THEN @ ELSE @ + 1]
             IN  {[st |-> s, ok |-> TRUE, buf |-> copy_slice(entry.data, offset, buf)]
                  : s \in IF st3.tc.smart_prefetching_enabled
                          THEN predict_future_accesses(st3, t) ELSE {st3}}
        ELSE read_texture_miss(st2, texture_id, mip_level, offset, buf, t)

read_texture_always_miss(st, texture_id, mip_level, offset, buf, t) ==
    read_texture_miss(st, texture_id, mip_level, offset, buf, t)

\* TextureCache::read_texture at time t.  Result: every [st, ok, buf] it may
\* end in.
read_texture(st, texture_id, mip_level, offset, buf, t) ==
    LET history == st.tc.recent_accesses
        pattern == [texture_id |-> texture_id, mip_level |-> mip_level,
                    timestamp |-> t]
        st1 == [st EXCEPT !.tc.recent_accesses =
                   Append(IF Len(history) >= st.tc.max_pattern_history
                          THEN Tail(history) ELSE history, pattern)]
        key == cache_key(texture_id, mip_level)
        found == key \in DOMAIN st.tc.cache_entries
        st2 == IF found
               THEN [st1 EXCEPT !.tc.cache_entries[key].last_access_time = t,
                                !.tc.cache_entries[key].access_count = @ + 1]
               ELSE st1
    IN  IF found /\ offset + Len(buf) <= Len(st.tc.cache_entries[key].data)
        THEN LET entry == st2.tc.cache_entries[key]
                 st3 == [st2 EXCEPT
                            !.tc.metrics.cache_hits = @ + 1,
                            !.tc.metrics.prefetch_hits =
                                IF entry.is_prefetched THEN @ + 1 ELSE @]
             IN  {[st |-> s, ok |-> TRUE, buf |-> copy_slice(entry.data, offset, buf)]
                  : s \in IF st3.tc.smart_prefetching_enabled
                          THEN predict_future_accesses(st3, t) ELSE {st3}}
        ELSE read_texture_miss(st2, texture_id, mip_level, offset, buf, t)

\* The entries invalidate_texture removes
RECURSIVE release_entries(_, _)
release_entries(st, keys) ==
    IF keys = {} THEN st
    ELSE LET k == CHOOSE x \in keys : TRUE
         IN  release_entries(evict_entry(st, k), keys \ {k})

\* TextureCache::invalidate_texture
invalidate_texture_keeping_allocations(st, texture_id) ==
    [tc |-> release_entries(st, {k \in DOMAIN st.tc.cache_entries :
                                   st.tc.cache_entries[k].texture_id = texture_id}).tc,
     mem |-> st.mem]

\* TextureCache::invalidate_texture
invalidate_texture(st, texture_id) ==
    release_entries(st, {k \in DOMAIN st.tc.cache_entries :
                            st.tc.cache_entries[k].texture_id = texture_id})

\* The deallocate loop of flush
RECURSIVE deallocate_all(_, _)
deallocate_all(m, addresses) ==
    IF addresses = {} THEN m
    ELSE LET a == CHOOSE x \in addresses : TRUE
         IN  deallocate_all(mem_deallocate(m, a), addresses \ {a})

\* A slip: the entries are dropped and their VRAM regions are kept.
flush_without_release(st) ==
    [tc |-> [st.tc EXCEPT !.cache_entries = <<>>,
                          !.current_cache_size_bytes = 0,
                          !.prefetch_queue = <<>>],
     mem |-> st.mem]

\* TextureCache::flush
flush(st) ==
    [tc |-> [st.tc EXCEPT !.cache_entries = <<>>,
                          !.current_cache_size_bytes = 0,
                          !.prefetch_queue = <<>>],
     mem |-> deallocate_all(st.mem, {st.tc.cache_entries[k].address :
                                        k \in DOMAIN st.tc.cache_entries})]

\* TextureCache::get_metrics, hit_rate (a fraction; 0 while nothing was read)
get_metrics_hit_rate(tc) ==
    LET total_accesses == tc.metrics.cache_hits + tc.metrics.cache_misses
    IN  IF total_accesses > 0 THEN <<tc.metrics.cache_hits, total_accesses>>
        ELSE <<0, 1>>

\* TextureCache::get_metrics, prefetch_efficiency (a fraction; 0 while no
\* prefetch was counted)
get_metrics_prefetch_efficiency(tc) ==
    LET total_prefetches == tc.metrics.prefetch_hits + tc.metrics.prefetch_misses
    IN  IF total_prefetches > 0 THEN <<tc.metrics.prefetch_hits, total_prefetches>>
        ELSE <<0, 1>>

\* TextureCache::get_metrics, cache_utilization_percent
cache_utilization_percent(tc) ==
    (tc.current_cache_size_bytes * 100) \div tc.max_cache_size_bytes

(***************************************************************************)
(* PerformanceMonitor.  Strings are sequences of characters.  Rates and    *)
(* means are fractions <<numerator, denominator>>; thresholds are kept in  *)
(* hundredths, frame times in milliseconds.  A timer keeps the set of      *)
(* started events; the duration end_timer measures on the wall clock is an *)
(* input of the call.  The counters and the bandwidth records, which are   *)
(* copied into the report as they are, are left out, and with them the     *)
(* report's timing_data, counter_data and bandwidth_data.                  *)
(***************************************************************************)
\* std::string::npos
npos == WORD - 1

\* std::string::find(pat): the first position (from 0) where pat occurs
Find(str, pat) ==
    LET at == {i \in 0..(Len(str) - Len(pat)) :
                   SubSeq(str, i + 1, i + Len(pat)) = pat}
    IN  IF at = {} THEN npos ELSE CHOOSE i \in at : \A j \in at : i <= j

\* std::string::substr(0, n)
Substr0(str, n) == SubSeq(str, 1, Min(n, Len(str)))

HIT_RATE == <<"h", "i", "t", "_", "r", "a", "t", "e">>
UNDERSCORE_HIT_RATE == <<"_">> \o HIT_RATE
FRAME_TIME_MS == <<"f", "r", "a", "m", "e", "_", "t", "i", "m", "e", "_", "m", "s">>

\* x < y for fractions with positive denominators
FracLess(x, y) == x[1] * y[2] < y[1] * x[2]
\* x = y for fractions with positive denominators
FracEq(x, y) == x[1] * y[2] = y[1] * x[2]
FracAdd(x, y) == <<x[1] * y[2] + y[1] * x[2], x[2] * y[2]>>

\* PerformanceMonitor::PerformanceMonitor
PerformanceMonitor ==
    [start_times |-> {},
     timing_history |-> <<>>,
     max_history_size |-> MAX_HISTORY_SIZE,
     cache_hits |-> <<>>,
     cache_misses |-> <<>>,
     frame_times |-> <<>>,
     triangle_counts |-> <<>>,
     fragment_counts |-> <<>>,
     performance_thresholds |-> <<>>]

\* map[key]++ of std::unordered_map: a missing key starts at 0
Incremented(map, key) ==
    [k \in DOMAIN map \cup {key} |->
        IF k = key THEN (IF key \in DOMAIN map THEN map[key] ELSE 0) + 1
        ELSE map[k]]

\* PerformanceMonitor::record_cache_access
record_cache_access(pm, cache_name, hit) ==
    IF hit
    THEN [pm EXCEPT !.cache_hits = Incremented(@, cache_name)]
    ELSE [pm EXCEPT !.cache_misses = Incremented(@, cache_name)]

\* PerformanceMonitor::record_frame_metrics (the history is never full here:
\* max_history_size_ is 1000)
record_frame_metrics_unbounded(pm, frame_time_ms, triangles, fragments) ==
    [pm EXCEPT !.frame_times = Append(@, frame_time_ms),
               !.triangle_counts = Append(@, triangles),
               !.fragment_counts = Append(@, fragments)]

\* PerformanceMonitor::record_frame_metrics
record_frame_metrics(pm, frame_time_ms, triangles, fragments) ==
    LET full == Len(pm.frame_times) >= pm.max_history_size
    IN  [pm EXCEPT
            !.frame_times = Append(IF full THEN Tail(@) ELSE @, frame_time_ms),
            !.triangle_counts = Append(IF full THEN Tail(@) ELSE @, triangles),
            !.fragment_counts = Append(IF full THEN Tail(@) ELSE @, fragments)]

\* PerformanceMonitor::start_timer
start_timer(pm, event) == [pm EXCEPT !.start_times = @ \cup {event}]

\* PerformanceMonitor::end_timer; duration is end_time - it->second
end_timer(pm, event, duration) ==
    IF event \in pm.start_times
    THEN LET history == IF event \in DOMAIN pm.timing_history
                        THEN pm.timing_history[event] ELSE <<>>
             kept == IF Len(history) >= pm.max_history_size
                     THEN Tail(history) ELSE history
         IN  [pm EXCEPT
                 !.timing_history = [e \in (DOMAIN @) \cup {event} |->
                                        IF e = event THEN Append(kept, duration)
                                        ELSE @[e]],
                 !.start_times = @ \ {event}]
    ELSE pm

\* PerformanceMonitor::set_performance_threshold
set_performance_threshold(pm, metric, threshold) ==
    [pm EXCEPT !.performance_thresholds =
        [m \in DOMAIN @ \cup {metric} |-> IF m = metric THEN threshold ELSE @[m]]]

\* PerformanceMonitor::reset_all_metrics
reset_all_metrics(pm) == PerformanceMonitor

\* The body of the loop of check_performance_alerts: the alert of one rule,
\* if it is triggered
rule_alerts(pm, metric, threshold) ==
    IF metric = FRAME_TIME_MS /\ pm.frame_times # <<>>
    THEN LET current_frame_time == pm.frame_times[Len(pm.frame_times)]
         IN  IF current_frame_time * 100 > threshold
             THEN {[metric |-> metric, subject |-> FRAME_TIME_MS,
                    value |-> <<current_frame_time, 1>>, threshold |-> threshold]}
             ELSE {}
    ELSE IF Find(metric, HIT_RATE) # npos
    THEN LET cache_name == Substr0(metric, Find(metric, UNDERSCORE_HIT_RATE))
         IN  IF cache_name \in DOMAIN pm.cache_hits /\ cache_name \in DOMAIN pm.cache_misses
             THEN LET total == pm.cache_hits[cache_name] + pm.cache_misses[cache_name]
                      hit_rate == <<pm.cache_hits[cache_name], total>>
                  IN  IF total > 0 /\ FracLess(hit_rate, <<threshold, 100>>)
                      THEN {[metric |-> metric, subject |-> cache_name,
                             value |-> hit_rate, threshold |-> threshold]}
                      ELSE {}
             ELSE {}
    ELSE {}

\* PerformanceMonitor::check_performance_alerts: the alerts, whose order is
\* the iteration order of the unordered map
check_performance_alerts(pm) ==
    UNION {rule_alerts(pm, metric, pm.performance_thresholds[metric])
           : metric \in DOMAIN pm.performance_thresholds}

\* The elements of a vector
Range(values) == {values[i] : i \in DOMAIN values}

RECURSIVE SumSeq(_)
\* std::accumulate
SumSeq(values) ==
    IF values = <<>> THEN 0 ELSE values[1] + SumSeq(Tail(values))

RECURSIVE SumFractions(_, _)
\* The sum of the fractions rates[k], k in keys
SumFractions(rates, keys) ==
    IF keys = {} THEN <<0, 1>>
    ELSE LET k == CHOOSE x \in keys : TRUE
         IN  FracAdd(rates[k], SumFractions(rates, keys \ {k}))

\* PerformanceMonitor::generate_report, "Cache hit rates"
report_cache_hit_rates(pm) ==
    LET hits(c) == pm.cache_hits[c]
        misses(c) == IF c \in DOMAIN pm.cache_misses THEN pm.cache_misses[c] ELSE 0
    IN  [c \in {x \in DOMAIN pm.cache_hits : hits(x) + misses(x) > 0} |->
            <<hits(c), hits(c) + misses(c)>>]

\* PerformanceMonitor::generate_report
generate_report(pm) ==
    LET cache_hit_rates == report_cache_hit_rates(pm)
        frames == pm.frame_times
        total_hit_rate == SumFractions(cache_hit_rates, DOMAIN cache_hit_rates)
        memory_efficiency ==
            IF DOMAIN cache_hit_rates # {}
            THEN <<total_hit_rate[1],
                   total_hit_rate[2] * Cardinality(DOMAIN cache_hit_rates)>>
            ELSE <<0, 1>>
        avg_frame_time_ms ==
            IF frames # <<>> THEN <<SumSeq(frames), Len(frames)>> ELSE <<0, 1>>
        fps_over_target == <<1000 * avg_frame_time_ms[2], avg_frame_time_ms[1] * 60>>
    IN  [cache_hit_rates |-> cache_hit_rates,
         avg_frame_time_ms |-> avg_frame_time_ms,
         min_frame_time_ms |->
             IF frames # <<>>
             THEN CHOOSE x \in Range(frames) : \A y \in Range(frames) : x <= y
             ELSE 0,
         max_frame_time_ms |->
             IF frames # <<>>
             THEN CHOOSE x \in Range(frames) : \A y \in Range(frames) : x >= y
             ELSE 0,
         total_triangles |-> IF frames # <<>> THEN SumSeq(pm.triangle_counts) ELSE 0,
         total_fragments |-> IF frames # <<>> THEN SumSeq(pm.fragment_counts) ELSE 0,
         memory_efficiency |-> memory_efficiency,
         cache_efficiency |-> memory_efficiency,
         pipeline_utilization |->
             IF avg_frame_time_ms[1] > 0
             THEN (IF FracLess(<<1, 1>>, fps_over_target) THEN <<1, 1>>
                   ELSE fps_over_target)
             ELSE <<0, 1>>]

(***************************************************************************)
(* State.                                                                  *)
(***************************************************************************)
VARIABLES
    cache,      \* a stand-alone GPUCache
    memory,     \* the MemoryHierarchy
    op,         \* the last operation: its name, arguments and results
    steps,      \* the number of operations performed so far
    pending,    \* history: the in-bounds writes <<a, d>> not overwritten since,
                \* in a run of reads and writes
    oob_seen,   \* history: some read or write request was out of bounds
    alloc_log,  \* history: <<size, address>> of the allocate calls that succeeded
    texture_cache,  \* the TextureCache (its memory_ is the variable memory)
    now,        \* the clock
    ticks,      \* the number of times the clock has advanced
    perf_monitor    \* a stand-alone PerformanceMonitor

vars == <<cache, memory, op, steps, pending, oob_seen, alloc_log,
          texture_cache, now, ticks, perf_monitor>>
cvars == <<cache>>
mvars == <<memory, pending, oob_seen, alloc_log>>
tvars == <<texture_cache, now, ticks>>

NoOp == [name |-> "init", a |-> 0, b |-> 0, ok |-> FALSE, ret |-> 0, buf |-> <<>>]

\* Byte values a caller writes (fresh memory and fresh lines hold 0), and the
\* value a caller's read buffer holds before the read.
WriteBytes == {1, 2}
BUF_FILL == 9

\* Requests <<address, size>> to the stand-alone cache: a line base, the last
\* byte of a line with a size that runs past it, a line of the other set, and
\* two more lines of the first set (so that a set overflows).
CacheRequests == {<<0, 1>>, <<3, 2>>, <<4, 1>>, <<8, 2>>, <<16, 1>>}
CacheAddrs == {r[1] : r \in CacheRequests}

Init ==
    /\ cache = GPUCache(L1_CACHE_SIZE, L1_LINE_SIZE, L1_ASSOCIATIVITY)
    /\ memory = MemoryHierarchy
    /\ op = NoOp
    /\ steps = 0
    /\ pending = {}
    /\ oob_seen = FALSE
    /\ alloc_log = <<>>
    /\ now = 0
    /\ ticks = 0
    /\ perf_monitor = PerformanceMonitor
    /\ texture_cache = TextureCache(CacheSizeMb, 0)

CacheRead ==
    \E r \in CacheRequests :
        LET res == cache_read(cache, r[1], Fill(r[2], BUF_FILL))
        IN  /\ steps < MaxCacheOps
            /\ cache' = res.cache
            /\ op' = [name |-> "cache_read", a |-> r[1], b |-> r[2],
                      ok |-> res.ok, ret |-> 0, buf |-> res.buf]
            /\ steps' = steps + 1
            /\ UNCHANGED <<mvars, tvars, perf_monitor>>

CacheWrite ==
    \E r \in CacheRequests, v \in WriteBytes :
        /\ steps < MaxCacheOps
        /\ cache' = cache_write(cache, r[1], Fill(r[2], v))
        /\ op' = [name |-> "cache_write", a |-> r[1], b |-> r[2],
                  ok |-> TRUE, ret |-> 0, buf |-> Fill(r[2], v)]
        /\ steps' = steps + 1
        /\ UNCHANGED <<mvars, tvars, perf_monitor>>

CacheInvalidate ==
    \E address \in CacheAddrs :
        /\ steps < MaxCacheOps
        /\ cache' = cache_invalidate(cache, address)
        /\ op' = [name |-> "cache_invalidate", a |-> address, b |-> 0,
                  ok |-> TRUE, ret |-> 0, buf |-> <<>>]
        /\ steps' = steps + 1
        /\ UNCHANGED <<mvars, tvars, perf_monitor>>

CacheFlush ==
    /\ steps < MaxCacheOps
    /\ cache' = cache_flush(cache)
    /\ op' = [name |-> "cache_flush", a |-> 0, b |-> 0,
              ok |-> TRUE, ret |-> 0, buf |-> <<>>]
    /\ steps' = steps + 1
    /\ UNCHANGED <<mvars, tvars, perf_monitor>>

NextCache == CacheRead \/ CacheWrite \/ CacheInvalidate \/ CacheFlush

SpecCache == Init /\ [][NextCache]_vars

(***************************************************************************)
(* The MemoryHierarchy's operations.                                       *)
(***************************************************************************)
\* Requests <<address, size>>: the last byte of an L1 line with a size that
\* crosses into the next line, bytes of that next line, and a request that
\* runs past the end of VRAM.
MemRequests == {<<11, 2>>, <<12, 1>>, <<13, 1>>, <<VRAM_SIZE - 1, 2>>}
\* Sizes asked of allocate: nothing, less than the alignment, a line, more
\* than is left, and sizes near the top of the word.
AllocSizes == {0, 1, 4, VRAM_SIZE - 2, WORD - 8, WORD - 2, WORD - 1}

\* The byte ranges [a1, a1 + n1) and [a2, a2 + n2) share a byte.
Overlaps(a1, n1, a2, n2) == n1 > 0 /\ n2 > 0 /\ a1 < a2 + n2 /\ a2 < a1 + n1

MemRead ==
    \E r \in MemRequests :
        LET res == mem_read(memory, r[1], Fill(r[2], BUF_FILL))
        IN  /\ steps < MaxMemOps
            /\ memory' = res.mem
            /\ op' = [name |-> "read", a |-> r[1], b |-> r[2],
                      ok |-> res.ok, ret |-> 0, buf |-> res.buf]
            /\ steps' = steps + 1
            /\ oob_seen' = (oob_seen \/ r[1] + r[2] > VRAM_SIZE)
            /\ UNCHANGED <<cache, perf_monitor, pending, alloc_log, tvars>>

MemWrite ==
    \E r \in MemRequests, v \in WriteBytes :
        LET res == mem_write(memory, r[1], Fill(r[2], v))
        IN  /\ steps < MaxMemOps
            /\ memory' = res.mem
            /\ op' = [name |-> "write", a |-> r[1], b |-> r[2],
                      ok |-> res.ok, ret |-> 0, buf |-> Fill(r[2], v)]
            /\ steps' = steps + 1
            /\ pending' = {w \in pending : ~Overlaps(w[1], Len(w[2]), r[1], r[2])}
                            \cup (IF r[1] + r[2] <= VRAM_SIZE
                                  THEN {<<r[1], Fill(r[2], v)>>} ELSE {})
            /\ oob_seen' = (oob_seen \/ r[1] + r[2] > VRAM_SIZE)
            /\ UNCHANGED <<cache, perf_monitor, alloc_log, tvars>>

MemAllocate ==
    \E size \in AllocSizes :
        LET res == mem_allocate(memory, size)
        IN  /\ steps < MaxMemOps
            /\ memory' = res.mem
            /\ op' = [name |-> "allocate", a |-> size, b |-> 0,
                      ok |-> res.ok, ret |-> res.ret, buf |-> <<>>]
            /\ steps' = steps + 1
            /\ alloc_log' = IF res.ok THEN Append(alloc_log, <<size, res.ret>>)
                            ELSE alloc_log
            /\ pending' = {}
            /\ UNCHANGED <<cache, perf_monitor, oob_seen, tvars>>

MemDeallocate ==
    \E address \in (DOMAIN memory.allocations) \cup {FIRST_ALLOCATION_ADDRESS} :
        /\ steps < MaxMemOps
        /\ memory' = mem_deallocate(memory, address)
        /\ op' = [name |-> "deallocate", a |-> address,
                  b |-> IF address \in DOMAIN memory.allocations
                        THEN memory.allocations[address] ELSE 0,
                  ok |-> address \in DOMAIN memory.allocations,
                  ret |-> 0, buf |-> <<>>]
        /\ steps' = steps + 1
        /\ pending' = {}
        /\ UNCHANGED <<cache, perf_monitor, oob_seen, alloc_log, tvars>>

MemFlush ==
    /\ steps < MaxMemOps
    /\ memory' = mem_flush_all_caches(memory)
    /\ op' = [name |-> "flush_all_caches", a |-> 0, b |-> 0,
              ok |-> TRUE, ret |-> 0, buf |-> <<>>]
    /\ steps' = steps + 1
    /\ pending' = {}
    /\ UNCHANGED <<cache, perf_monitor, oob_seen, alloc_log, tvars>>

NextMem == MemRead \/ MemWrite \/ MemAllocate \/ MemDeallocate \/ MemFlush

SpecMem == Init /\ [][NextMem]_vars

(***************************************************************************)
(* The TextureCache's operations.  The cache is the only client of the     *)
(* memory hierarchy.                                                       *)
(***************************************************************************)
\* Requests <<texture_id, mip_level, offset, size>> of read_texture: a mip
\* walk and a sequential walk, a slice that runs past a resident entry, a
\* request larger than the capacity, and a mip level of 256.
TexReads ==
    {<<1, 0, 0, 1>>, <<1, 1, 0, 1>>, <<2, 0, 0, 1>>,
     <<1, 0, TEXTURE_SIZE - 1, 2>>,
     <<1, 0, 0, CacheSizeMb * TEXTURE_SIZE + 1>>,
     <<1, KEY_SHIFT, 0, 1>>}
\* Requests <<texture_id, mip_level>> of prefetch_texture
TexPrefetches == {<<1, 0>>, <<3, 0>>, <<2, KEY_SHIFT>>}
TexIds == {1, 2, 3}
\* How far the clock may advance between two operations
TickSteps == {1, DEFAULT_OPTIMIZATION_INTERVAL}

TexState == [tc |-> texture_cache, mem |-> memory]

Tick ==
    \E d \in TickSteps :
        /\ ticks < MaxTicks
        /\ now' = now + d
        /\ ticks' = ticks + 1
        /\ UNCHANGED <<cache, perf_monitor, mvars, texture_cache, op, steps>>

TexRead ==
    \E r \in TexReads :
        \E o \in read_texture(TexState, r[1], r[2], r[3], Fill(r[4], BUF_FILL), now) :
            /\ steps < MaxTexOps
            /\ texture_cache' = o.st.tc
            /\ memory' = o.st.mem
            /\ op' = [name |-> "read_texture", a |-> r[1], b |-> r[2],
                      ok |-> o.ok, ret |-> r[3], buf |-> o.buf]
            /\ steps' = steps + 1
            /\ UNCHANGED <<cache, perf_monitor, pending, oob_seen, alloc_log, now, ticks>>

TexPrefetch ==
    \E r \in TexPrefetches :
        \E s \in prefetch_texture(TexState, r[1], r[2], now) :
            /\ steps < MaxTexOps
            /\ texture_cache' = s.tc
            /\ memory' = s.mem
            /\ op' = [name |-> "prefetch_texture", a |-> r[1], b |-> r[2],
                      ok |-> TRUE, ret |-> 0, buf |-> <<>>]
            /\ steps' = steps + 1
            /\ UNCHANGED <<cache, perf_monitor, pending, oob_seen, alloc_log, now, ticks>>

TexInvalidate ==
    \E id \in TexIds :
        LET s == invalidate_texture(TexState, id)
        IN  /\ steps < MaxTexOps
            /\ texture_cache' = s.tc
            /\ memory' = s.mem
            /\ op' = [name |-> "invalidate_texture", a |-> id, b |-> 0,
                      ok |-> TRUE, ret |-> 0, buf |-> <<>>]
            /\ steps' = steps + 1
            /\ UNCHANGED <<cache, perf_monitor, pending, oob_seen, alloc_log, now, ticks>>

TexFlush ==
    LET s == flush(TexState)
    IN  /\ steps < MaxTexOps
        /\ texture_cache' = s.tc
        /\ memory' = s.mem
        /\ op' = [name |-> "flush", a |-> 0, b |-> 0,
                  ok |-> TRUE, ret |-> 0, buf |-> <<>>]
        /\ steps' = steps + 1
        /\ UNCHANGED <<cache, perf_monitor, pending, oob_seen, alloc_log, now, ticks>>

\* enable_smart_prefetching(enable)
TexEnableSmartPrefetching ==
    \E enable \in BOOLEAN :
        /\ texture_cache' = [texture_cache EXCEPT !.smart_prefetching_enabled = enable]
        /\ UNCHANGED <<cache, perf_monitor, mvars, now, ticks, op, steps>>

\* enable_adaptive_caching(enable)
TexEnableAdaptiveCaching ==
    \E enable \in BOOLEAN :
        /\ texture_cache' = [texture_cache EXCEPT !.adaptive_caching_enabled = enable]
        /\ UNCHANGED <<cache, perf_monitor, mvars, now, ticks, op, steps>>

NextTex ==
    \/ Tick
    \/ TexRead
    \/ TexPrefetch
    \/ TexInvalidate
    \/ TexFlush
    \/ TexEnableSmartPrefetching
    \/ TexEnableAdaptiveCaching

SpecTex == Init /\ [][NextTex]_vars

(***************************************************************************)
(* The eviction scenario: a cache with room for one more texture than the  *)
(* fresh one, full with a prefetched entry A, read once, and a demand       *)
(* entry B, read five times and later than A.  The state is built by the   *)
(* calls that lead to it:                                                  *)
(*     prefetch_texture(1, 0); read_texture(1, 0, 0, buf);                 *)
(*     enable_smart_prefetching(false); 5 x read_texture(2, 0, 0, buf);    *)
(*     enable_smart_prefetching(true).                                     *)
(***************************************************************************)
\* The states read_texture(texture_id, mip_level, 0, buf) at time t may leave
ReadFrom(s, texture_id, mip_level, t) ==
    {o.st : o \in read_texture(s, texture_id, mip_level, 0, Fill(1, BUF_FILL), t)}

RECURSIVE ReadTimes(_, _, _, _, _)
\* The states after n times read_texture(texture_id, mip_level, 0, buf) at
\* time t, from a state of S
ReadTimes(S, texture_id, mip_level, n, t) ==
    IF n = 0 THEN S
    ELSE ReadTimes(UNION {ReadFrom(s, texture_id, mip_level, t) : s \in S},
                   texture_id, mip_level, n - 1, t)

EvictionScenario ==
    UNION {{[b EXCEPT !.tc.smart_prefetching_enabled = TRUE]
            : b \in ReadTimes({[a EXCEPT !.tc.smart_prefetching_enabled = FALSE]},
                              2, 0, 5, 1)}
           : a \in UNION {ReadFrom(p, 1, 0, 0)
                          : p \in prefetch_texture(
                                      [tc |-> TextureCache(CacheSizeMb + 1, 0),
                                       mem |-> MemoryHierarchy], 1, 0, 0)}}

\* A fresh cache, or the cache of the eviction scenario
InitEvict ==
    /\ cache = GPUCache(L1_CACHE_SIZE, L1_LINE_SIZE, L1_ASSOCIATIVITY)
    /\ op = NoOp
    /\ steps = 0
    /\ pending = {}
    /\ oob_seen = FALSE
    /\ alloc_log = <<>>
    /\ ticks = 0
    /\ perf_monitor = PerformanceMonitor
    /\ \/ /\ now = 0
          /\ texture_cache = TextureCache(CacheSizeMb, 0)
          /\ memory = MemoryHierarchy
       \/ /\ now = 1
          /\ \E s \in EvictionScenario :
                 /\ texture_cache = s.tc
                 /\ memory = s.mem

SpecEvict == InitEvict /\ [][NextTex]_vars

(***************************************************************************)
(* The exhaustion scenario: a cache whose memory hierarchy has no room     *)
(* left for a texture.  The state is built by the calls that lead to it:   *)
(* read_texture(i, 0, 0, buf) for as many textures i = 1, 2, ... as VRAM   *)
(* holds behind the first allocation address (the allocator never hands a  *)
(* released region out again).                                             *)
(***************************************************************************)
RECURSIVE ReadTextures(_, _, _)
\* The states after read_texture(i, 0, 0, buf) for i = 1, ..., n in turn, at
\* time t, from a state of S
ReadTextures(S, n, t) ==
    IF n = 0 THEN S
    ELSE UNION {ReadFrom(s, n, 0, t) : s \in ReadTextures(S, n - 1, t)}

ExhaustionScenario ==
    ReadTextures({[tc |-> TextureCache(CacheSizeMb, 0), mem |-> MemoryHierarchy]},
                 (VRAM_SIZE - FIRST_ALLOCATION_ADDRESS) \div TEXTURE_SIZE, 0)

\* A fresh cache, or the cache of the exhaustion scenario
InitFull ==
    /\ cache = GPUCache(L1_CACHE_SIZE, L1_LINE_SIZE, L1_ASSOCIATIVITY)
    /\ op = NoOp
    /\ steps = 0
    /\ pending = {}
    /\ oob_seen = FALSE
    /\ alloc_log = <<>>
    /\ ticks = 0
    /\ perf_monitor = PerformanceMonitor
    /\ now = 0
    /\ \/ /\ texture_cache = TextureCache(CacheSizeMb, 0)
          /\ memory = MemoryHierarchy
       \/ \E s \in ExhaustionScenario :
              /\ texture_cache = s.tc
              /\ memory = s.mem

SpecFull == InitFull /\ [][NextTex]_vars

\* tune_performance_parameters(), called by the client
TexTunePerformanceParameters ==
    /\ steps < MaxTunes
    /\ texture_cache' = tune_performance_parameters(texture_cache)
    /\ op' = [name |-> "tune_performance_parameters", a |-> 0, b |-> 0,
              ok |-> TRUE, ret |-> 0, buf |-> <<>>]
    /\ steps' = steps + 1
    /\ UNCHANGED <<cache, perf_monitor, mvars, now, ticks>>

\* reset_metrics()
TexResetMetrics ==
    /\ steps < MaxTexOps
    /\ texture_cache' = reset_metrics(texture_cache)
    /\ op' = [name |-> "reset_metrics", a |-> 0, b |-> 0,
              ok |-> TRUE, ret |-> 0, buf |-> <<>>]
    /\ steps' = steps + 1
    /\ UNCHANGED <<cache, perf_monitor, mvars, now, ticks>>

\* How often texture 1 is read to build a hit/miss history
TuneReads == {0, 1, 3, 5, 11}

\* The states after texture 1 was read n times (n in TuneReads) with smart
\* prefetching off, on a fresh cache (one miss, then hits) or after
\* prefetch_texture(1, 0) (hits of a prefetched entry only), and then with
\* smart prefetching left off or switched on again
TuneScenario ==
    UNION {UNION {UNION {{r, [r EXCEPT !.tc.smart_prefetching_enabled = TRUE]}
                         : r \in ReadTimes({[b EXCEPT !.tc.smart_prefetching_enabled = FALSE]},
                                           1, 0, n, 0)}
                  : n \in TuneReads}
           : b \in {[tc |-> TextureCache(CacheSizeMb, 0), mem |-> MemoryHierarchy]}
                    \cup prefetch_texture([tc |-> TextureCache(CacheSizeMb, 0),
                                            mem |-> MemoryHierarchy], 1, 0, 0)}

InitTune ==
    /\ cache = GPUCache(L1_CACHE_SIZE, L1_LINE_SIZE, L1_ASSOCIATIVITY)
    /\ op = NoOp
    /\ steps = 0
    /\ pending = {}
    /\ oob_seen = FALSE
    /\ alloc_log = <<>>
    /\ ticks = 0
    /\ perf_monitor = PerformanceMonitor
    /\ now = 0
    /\ \E s \in TuneScenario :
           /\ texture_cache = s.tc
           /\ memory = s.mem

NextTune ==
    \/ TexRead
    \/ TexPrefetch
    \/ TexInvalidate
    \/ TexFlush
    \/ TexTunePerformanceParameters
    \/ TexResetMetrics

SpecTune == InitTune /\ [][NextTune]_vars

(***************************************************************************)
(* The PerformanceMonitor on its own.                                      *)
(***************************************************************************)
CacheNames == {<<"c">>, <<"d">>}
Metrics == {c \o UNDERSCORE_HIT_RATE : c \in CacheNames} \cup {FRAME_TIME_MS}
\* Thresholds 0.6 and 0.7
Thresholds == {60, 70}
\* <<frame_time_ms, triangles, fragments>>
Frames == {<<0, 1, 2>>, <<20, 3, 4>>}

MonRecordCacheAccess ==
    \E c \in CacheNames, hit \in BOOLEAN :
        /\ steps < MaxMonOps
        /\ perf_monitor' = record_cache_access(perf_monitor, c, hit)
        /\ op' = [name |-> "record_cache_access", a |-> c, b |-> hit,
                  ok |-> TRUE, ret |-> 0, buf |-> <<>>]
        /\ steps' = steps + 1
        /\ UNCHANGED <<cache, mvars, tvars>>

MonRecordFrameMetrics ==
    \E f \in Frames :
        /\ steps < MaxMonOps
        /\ perf_monitor' = record_frame_metrics(perf_monitor, f[1], f[2], f[3])
        /\ op' = [name |-> "record_frame_metrics", a |-> f[1], b |-> f[2],
                  ok |-> TRUE, ret |-> f[3], buf |-> <<>>]
        /\ steps' = steps + 1
        /\ UNCHANGED <<cache, mvars, tvars>>

MonSetPerformanceThreshold ==
    \E metric \in Metrics, threshold \in Thresholds :
        /\ steps < MaxMonOps
        /\ perf_monitor' = set_performance_threshold(perf_monitor, metric, threshold)
        /\ op' = [name |-> "set_performance_threshold", a |-> metric, b |-> threshold,
                  ok |-> TRUE, ret |-> 0, buf |-> <<>>]
        /\ steps' = steps + 1
        /\ UNCHANGED <<cache, mvars, tvars>>

MonResetAllMetrics ==
    /\ steps < MaxMonOps
    /\ perf_monitor' = reset_all_metrics(perf_monitor)
    /\ op' = [name |-> "reset_all_metrics", a |-> 0, b |-> 0,
              ok |-> TRUE, ret |-> 0, buf |-> <<>>]
    /\ steps' = steps + 1
    /\ UNCHANGED <<cache, mvars, tvars>>

\* check_performance_alerts() const: ret is the set of alerts returned
MonCheckPerformanceAlerts ==
    /\ steps < MaxMonOps
    /\ op' = [name |-> "check_performance_alerts", a |-> 0, b |-> 0,
              ok |-> TRUE, ret |-> check_performance_alerts(perf_monitor), buf |-> <<>>]
    /\ steps' = steps + 1
    /\ UNCHANGED <<cache, mvars, tvars, perf_monitor>>

\* generate_report() const: ret is the report returned
MonGenerateReport ==
    /\ steps < MaxMonOps
    /\ op' = [name |-> "generate_report", a |-> 0, b |-> 0,
              ok |-> TRUE, ret |-> generate_report(perf_monitor), buf |-> <<>>]
    /\ steps' = steps + 1
    /\ UNCHANGED <<cache, mvars, tvars, perf_monitor>>

NextMon ==
    \/ MonRecordCacheAccess
    \/ MonRecordFrameMetrics
    \/ MonSetPerformanceThreshold
    \/ MonResetAllMetrics
    \/ MonCheckPerformanceAlerts
    \/ MonGenerateReport

SpecMon == Init /\ [][NextMon]_vars

\* Timed events, and the durations (in milliseconds) end_timer may measure
Events == {"load", "draw"}
Durations == {1, 2}

MonStartTimer ==
    \E event \in Events :
        /\ steps < MaxMonOps
        /\ perf_monitor' = start_timer(perf_monitor, event)
        /\ op' = [name |-> "start_timer", a |-> event, b |-> 0,
                  ok |-> TRUE, ret |-> 0, buf |-> <<>>]
        /\ steps' = steps + 1
        /\ UNCHANGED <<cache, mvars, tvars>>

MonEndTimer ==
    \E event \in Events, duration \in Durations :
        /\ steps < MaxMonOps
        /\ perf_monitor' = end_timer(perf_monitor, event, duration)
        /\ op' = [name |-> "end_timer", a |-> event, b |-> duration,
                  ok |-> event \in perf_monitor.start_times, ret |-> 0, buf |-> <<>>]
        /\ steps' = steps + 1
        /\ UNCHANGED <<cache, mvars, tvars>>

\* start_timer(event); end_timer(event), once for each duration of the list
RECURSIVE Timed(_, _, _)
Timed(pm, event, durations) ==
    IF durations = <<>> THEN pm
    ELSE Timed(end_timer(start_timer(pm, event), event, Head(durations)),
               event, Tail(durations))

\* record_frame_metrics once for each frame of the list
RECURSIVE Recorded(_, _)
Recorded(pm, frames) ==
    IF frames = <<>> THEN pm
    ELSE LET f == Head(frames)
         IN  Recorded(record_frame_metrics(pm, f[1], f[2], f[3]), Tail(frames))

\* A monitor whose "load" history and frame histories are full
HistoryScenario ==
    Recorded(Timed(PerformanceMonitor, "load", <<1, 2, 1>>),
             <<<<0, 1, 2>>, <<20, 3, 4>>, <<0, 1, 2>>>>)

InitHist ==
    /\ cache = GPUCache(L1_CACHE_SIZE, L1_LINE_SIZE, L1_ASSOCIATIVITY)
    /\ memory = MemoryHierarchy
    /\ op = NoOp
    /\ steps = 0
    /\ pending = {}
    /\ oob_seen = FALSE
    /\ alloc_log = <<>>
    /\ texture_cache = TextureCache(CacheSizeMb, 0)
    /\ now = 0
    /\ ticks = 0
    /\ perf_monitor \in {PerformanceMonitor, HistoryScenario}

NextHist ==
    \/ MonStartTimer
    \/ MonEndTimer
    \/ MonRecordFrameMetrics
    \/ MonResetAllMetrics

SpecHist == InitHist /\ [][NextHist]_vars

(***************************************************************************)
(* Properties.                                                             *)
(***************************************************************************)
ValidLines(c) ==
    {<<s, i>> \in (DOMAIN c.cache_sets) \X (1..c.associativity) :
        c.cache_sets[s][i].present /\ c.cache_sets[s][i].valid}

\* The sum of the payload sizes of the entries with the given keys
RECURSIVE PayloadBytes(_, _)
PayloadBytes(entries, keys) ==
    IF keys = {} THEN 0
    ELSE LET k == CHOOSE x \in keys : TRUE
         IN  Len(entries[k].data) + PayloadBytes(entries, keys \ {k})

\* C1: after every TextureCache operation the payload sizes of the resident
\* entries add up to current_cache_size_bytes, which is at most
\* max_cache_size_bytes.
C1_SizeInvariant ==
    /\ PayloadBytes(texture_cache.cache_entries, DOMAIN texture_cache.cache_entries)
           = texture_cache.current_cache_size_bytes
    /\ texture_cache.current_cache_size_bytes <= texture_cache.max_cache_size_bytes

\* C2: a write(a, d) inside VRAM followed, after reads and writes that do not
\* write into [a, a + |d|), by read(a, buf) with |buf| = |d| returns success
\* with buf = d.
C2_RoundTrip ==
    (op.name = "read") =>
        \A w \in pending :
            (w[1] = op.a /\ Len(w[2]) = op.b) => (op.ok /\ op.buf = w[2])

\* Every byte of a valid line of cache c that lies inside VRAM equals the
\* VRAM byte at the same address.
LinesMatchVram(c, m) ==
    \A p \in ValidLines(c) :
        LET line == c.cache_sets[p[1]][p[2]]
        IN  \A b \in 0..(c.line_size - 1) :
                (line.address + b < VRAM_SIZE) =>
                    line.data[b] = m.vram[line.address + b]

\* C3: as long as every read and write request was in bounds, every byte of
\* every valid line of L1 and of L2 equals the VRAM byte at its address.
C3_Coherent ==
    (~oob_seen) =>
        /\ LinesMatchVram(memory.l1_cache, memory)
        /\ LinesMatchVram(memory.l2_cache, memory)

\* Some valid line of cache c overlaps [a, a + n).
LineOverlaps(c, a, n) ==
    \E p \in ValidLines(c) :
        Overlaps(c.cache_sets[p[1]][p[2]].address, c.line_size, a, n)

\* No allocate call so far has wrapped around the word: every region handed
\* out lies inside VRAM.
NoWrapSoFar ==
    \A i \in 1..Len(alloc_log) :
        alloc_log[i][2] + ((alloc_log[i][1] + ALLOC_ALIGN - 1) \div ALLOC_ALIGN)
                              * ALLOC_ALIGN <= VRAM_SIZE

\* C4: right after deallocate(a) of a recorded region of size s, no valid line
\* of L1 or of L2 overlaps [a, a + s).  (Stated for runs in which the
\* allocator has handed out regions inside VRAM only.)
C4_DeallocInvalidatesRegion ==
    (op.name = "deallocate" /\ op.ok /\ NoWrapSoFar) =>
        /\ ~LineOverlaps(memory.l1_cache, op.a, op.b)
        /\ ~LineOverlaps(memory.l2_cache, op.a, op.b)

\* C5: hit_count + miss_count = access_count; read and write each add one to
\* access_count and one to exactly one of hit_count and miss_count;
\* invalidate and flush change none of the three counters.
C5_CounterConservation ==
    [][/\ cache'.hit_count + cache'.miss_count = cache'.access_count
       /\ (op'.name \in {"cache_read", "cache_write"}) =>
             /\ cache'.access_count = cache.access_count + 1
             /\ \/ /\ cache'.hit_count = cache.hit_count + 1
                   /\ cache'.miss_count = cache.miss_count
                \/ /\ cache'.hit_count = cache.hit_count
                   /\ cache'.miss_count = cache.miss_count + 1
       /\ (op'.name \in {"cache_invalidate", "cache_flush"}) =>
             /\ cache'.access_count = cache.access_count
             /\ cache'.hit_count = cache.hit_count
             /\ cache'.miss_count = cache.miss_count]_vars

\* A flush or an invalidate has just run on a cache that has recorded both
\* hits and misses.
C5_Witness ==
    /\ op.name \in {"cache_invalidate", "cache_flush"}
    /\ cache.hit_count >= 1
    /\ cache.miss_count >= 2

\* C6: every valid line is line-aligned, sits in the set its address maps to,
\* and no set holds two valid lines with the same address.
C6_LinePlacement ==
    \A p \in ValidLines(cache) :
        LET line == cache.cache_sets[p[1]][p[2]]
        IN  /\ line.address % cache.line_size = 0
            /\ get_set_index(cache, line.address) = p[1]
            /\ \A q \in ValidLines(cache) :
                   (q[1] = p[1] /\ q[2] # p[2]) =>
                       cache.cache_sets[q[1]][q[2]].address # line.address

\* Both sets hold valid lines, one set is full, and the last request was a
\* write at an address that is not a line base.
C6_Witness ==
    /\ op.name = "cache_write"
    /\ op.a % cache.line_size # 0
    /\ \E s \in DOMAIN cache.cache_sets :
           \A i \in 1..cache.associativity : <<s, i>> \in ValidLines(cache)
    /\ \A s \in DOMAIN cache.cache_sets :
           \E i \in 1..cache.associativity : <<s, i>> \in ValidLines(cache)

\* C7: the addresses returned by the successful allocate calls for a size of
\* at least one byte are strictly increasing.
C7_AllocateMonotonic ==
    \A i, j \in 1..Len(alloc_log) :
        (i < j /\ alloc_log[i][1] > 0 /\ alloc_log[j][1] > 0) =>
            alloc_log[i][2] < alloc_log[j][2]

\* The request size rounded up to the alignment, without wrap-around
RoundUpExact(size) ==
    ((size + ALLOC_ALIGN - 1) \div ALLOC_ALIGN) * ALLOC_ALIGN

\* C8: an allocate whose rounded-up size does not fit behind next_address
\* (computed without wrap-around) returns 0 and leaves next_address and the
\* allocation map unchanged; a successful allocate never returns 0.
C8_AllocateOverflowFails ==
    [][(op'.name = "allocate") =>
          /\ (memory.next_allocation_address + RoundUpExact(op'.a) > VRAM_SIZE) =>
                /\ op'.ret = 0
                /\ memory'.next_allocation_address = memory.next_allocation_address
                /\ memory'.allocations = memory.allocations
          /\ op'.ok => op'.ret # 0]_vars

\* C9: the recorded allocations are pairwise disjoint and lie inside VRAM.
C9_AllocationsDisjoint ==
    \A b1 \in DOMAIN memory.allocations :
        /\ b1 + memory.allocations[b1] <= VRAM_SIZE
        /\ \A b2 \in DOMAIN memory.allocations :
               (b1 # b2) =>
                   ~Overlaps(b1, memory.allocations[b1], b2, memory.allocations[b2])

\* C10: a read_texture or prefetch_texture with mip_level >= 256 resolves to
\* a key of its own: the entry resident under its key afterwards is an entry
\* of that (texture_id, mip_level) pair, not one of another pair.
C10_KeyOfItsOwn ==
    (op.name \in {"read_texture", "prefetch_texture"} /\ op.ok /\ op.b >= KEY_SHIFT) =>
        LET key == cache_key(op.a, op.b)
        IN  (key \in DOMAIN texture_cache.cache_entries) =>
                /\ texture_cache.cache_entries[key].texture_id = op.a
                /\ texture_cache.cache_entries[key].mip_level = op.b

\* C11: on a fresh cache with smart prefetching enabled, after
\* read_texture(t, m, 0, buf) and read_texture(t, m + 1, 0, buf), with
\* m + 2 below the mip limit, an entry for (t, m + 2) is resident and has
\* is_prefetched = TRUE.
C11_MipWalkPrefetch ==
    LET h == texture_cache.recent_accesses
    IN  (/\ steps = 2
         /\ Len(h) = 2
         /\ op.name = "read_texture"
         /\ texture_cache.smart_prefetching_enabled
         /\ h[1].texture_id = h[2].texture_id
         /\ h[2].mip_level = h[1].mip_level + 1
         /\ h[2].mip_level + 1 < MIP_LIMIT) =>
            LET key == cache_key(h[2].texture_id, h[2].mip_level + 1)
            IN  /\ key \in DOMAIN texture_cache.cache_entries
                /\ texture_cache.cache_entries[key].is_prefetched

\* C12: on a fresh cache with smart prefetching enabled, after
\* read_texture(t, m, ...) and read_texture(t + 1, m, ...), the key
\* (t + 2, m) is resident with is_prefetched = TRUE.
C12_SequentialPrefetch ==
    LET h == texture_cache.recent_accesses
    IN  (/\ steps = 2
         /\ Len(h) = 2
         /\ op.name = "read_texture"
         /\ texture_cache.smart_prefetching_enabled
         /\ h[2].texture_id = h[1].texture_id + 1
         /\ h[2].mip_level = h[1].mip_level) =>
            LET key == cache_key(h[2].texture_id + 1, h[2].mip_level)
            IN  /\ key \in DOMAIN texture_cache.cache_entries
                /\ texture_cache.cache_entries[key].is_prefetched

\* C13: with capacity N textures and N entries of one texture size resident,
\* an operation that inserts an entry of one texture size under a new key
\* evicts at least one resident entry: afterwards exactly N entries are
\* resident, their payload sizes add up to current_cache_size_bytes, and that
\* is at most max_cache_size_bytes.
C13_EvictionUnderPressure ==
    [][LET old == texture_cache.cache_entries
           new == texture_cache'.cache_entries
           inserted == (DOMAIN new) \ (DOMAIN old)
       IN  (/\ Cardinality(DOMAIN old) = CacheSizeMb
            /\ \A k \in DOMAIN old : Len(old[k].data) = TEXTURE_SIZE
            /\ inserted # {}
            /\ \A k \in inserted : Len(new[k].data) = TEXTURE_SIZE) =>
               /\ (DOMAIN old) \ (DOMAIN new) # {}
               /\ Cardinality(DOMAIN new) = CacheSizeMb
               /\ PayloadBytes(new, DOMAIN new) = texture_cache'.current_cache_size_bytes
               /\ texture_cache'.current_cache_size_bytes
                      <= texture_cache'.max_cache_size_bytes]_vars

\* read_texture has been called on N + 1 distinct keys of a fresh cache, every
\* call a miss, and N entries are resident.
C13_Witness ==
    /\ op.name = "read_texture"
    /\ op.ok
    /\ steps = CacheSizeMb + 1
    /\ texture_cache.metrics.cache_misses = CacheSizeMb + 1
    /\ Cardinality({cache_key(texture_cache.recent_accesses[i].texture_id,
                              texture_cache.recent_accesses[i].mip_level) :
                        i \in DOMAIN texture_cache.recent_accesses}) = CacheSizeMb + 1
    /\ Cardinality(DOMAIN texture_cache.cache_entries) = CacheSizeMb
    /\ \A k \in DOMAIN texture_cache.cache_entries :
           Len(texture_cache.cache_entries[k].data) = TEXTURE_SIZE

\* The entry under key k as the eviction loop of the step's operation sees
\* it: read_texture updates the entry of its own key before anything else.
EntryAtEviction(k) ==
    LET e == texture_cache.cache_entries[k]
    IN  IF op'.name = "read_texture" /\ k = cache_key(op'.a, op'.b)
        THEN [e EXCEPT !.last_access_time = now, !.access_count = @ + 1]
        ELSE e

\* The keys whose entries the step's read_texture or prefetch_texture evicted:
\* eviction, and nothing else in these operations, releases the entry's region.
EvictedKeys ==
    IF op'.name \in {"read_texture", "prefetch_texture"} /\ steps' = steps + 1
    THEN {k \in DOMAIN texture_cache.cache_entries :
            /\ texture_cache.cache_entries[k].address \in DOMAIN memory.allocations
            /\ texture_cache.cache_entries[k].address \notin DOMAIN memory'.allocations}
    ELSE {}

\* A prefetched entry read once (A) and a demand entry read five times whose
\* last access is later (B)
ScenarioPairs ==
    {<<a, b>> \in (DOMAIN texture_cache.cache_entries) \X (DOMAIN texture_cache.cache_entries) :
        LET A == texture_cache.cache_entries[a]
            B == texture_cache.cache_entries[b]
        IN  /\ A.is_prefetched /\ A.access_count = 1
            /\ ~B.is_prefetched /\ B.access_count = 5
            /\ B.last_access_time > A.last_access_time}

\* C14: no entry that stays resident has a lower priority score than an entry
\* evicted in the same operation; and with a prefetched entry A (read once) and
\* a demand entry B (read five times, later) resident, an operation on another
\* key evicts B only after A, and when A and B are the resident entries an
\* operation that evicts evicts A and B stays.
C14_EvictionVictim ==
    [][/\ \A e \in EvictedKeys :
              \A s \in (DOMAIN texture_cache.cache_entries) \ EvictedKeys :
                  ~score_less(EntryAtEviction(s), EntryAtEviction(e), now)
       /\ \A p \in ScenarioPairs :
              (EvictedKeys # {} /\ EntryAtEviction(p[1]) = texture_cache.cache_entries[p[1]]) =>
                  /\ p[2] \in EvictedKeys => p[1] \in EvictedKeys
                  /\ DOMAIN texture_cache.cache_entries = {p[1], p[2]} =>
                         /\ p[1] \in EvictedKeys
                         /\ Cardinality(EvictedKeys) = 1 => p[2] \notin EvictedKeys]_vars

\* In the eviction scenario a read of a third texture has evicted A, the
\* prefetched entry, and B, the demand entry, is still resident.
C14_Witness ==
    /\ op.name = "read_texture"
    /\ op.ok
    /\ steps = 1
    /\ DOMAIN texture_cache.cache_entries
           = {cache_key(2, 0), cache_key(op.a, op.b)}
    /\ cache_key(op.a, op.b) \notin {cache_key(1, 0), cache_key(2, 0)}
    /\ texture_cache.cache_entries[cache_key(2, 0)].access_count = 5
    /\ FIRST_ALLOCATION_ADDRESS \notin DOMAIN memory.allocations

\* Cache c holds a valid line that contains the address.
HoldsLine(c, address) ==
    \E p \in ValidLines(c) :
        c.cache_sets[p[1]][p[2]].address = AlignDown(address, c.line_size)

\* The hit, miss and access counters of cache c
Counters(c) == <<c.hit_count, c.miss_count, c.access_count>>

\* C15: when read(a, n) returns success the L1 line of a is valid on return;
\* a read that found the line in neither cache leaves it valid in L2 and in
\* L1; and the same read repeated at once succeeds as an L1 hit: the hit count
\* of L1 grows by one and no counter of L2 changes.
C15_FillPath ==
    [][(op'.name = "read" /\ steps' = steps + 1) =>
          /\ op'.ok => HoldsLine(memory'.l1_cache, op'.a)
          /\ (/\ op'.ok
              /\ ~HoldsLine(memory.l1_cache, op'.a)
              /\ ~HoldsLine(memory.l2_cache, op'.a)) =>
                 /\ HoldsLine(memory'.l2_cache, op'.a)
                 /\ HoldsLine(memory'.l1_cache, op'.a)
          /\ (op.name = "read" /\ op.ok /\ op'.a = op.a /\ op'.b = op.b) =>
                 /\ op'.ok
                 /\ memory'.l1_cache.hit_count = memory.l1_cache.hit_count + 1
                 /\ memory'.l1_cache.miss_count = memory.l1_cache.miss_count
                 /\ Counters(memory'.l2_cache) = Counters(memory.l2_cache)]_vars

\* A read served by VRAM, then the same read again, served by L1.
C15_Witness ==
    /\ op.name = "read"
    /\ op.ok
    /\ steps = 2
    /\ Counters(memory.l1_cache) = <<1, 2, 3>>
    /\ Counters(memory.l2_cache) = <<0, 2, 2>>
    /\ HoldsLine(memory.l1_cache, op.a)
    /\ HoldsLine(memory.l2_cache, op.a)

\* C16: a read(address, n) with address + n beyond the end of VRAM returns
\* failure, in every reachable state.
C16_OutOfBoundsReadFails ==
    (op.name = "read" /\ op.a + op.b > VRAM_SIZE) => ~op.ok

\* The step is a read_texture of a slice inside one texture size.
ReadsSlice == 
    /\ op'.name = "read_texture"
    /\ steps' = steps + 1
    /\ op'.ret + Len(op'.buf) <= TEXTURE_SIZE

\* The step repeats the read_texture before it, a successful read that was a
\* miss on a non-resident key: that read's entry is resident, not prefetched
\* and accessed once.
RepeatsFirstRead ==
    LET key == cache_key(op.a, op.b)
    IN  /\ ReadsSlice
        /\ op.name = "read_texture"
        /\ op.ok
        /\ op'.a = op.a /\ op'.b = op.b /\ op'.ret = op.ret
        /\ Len(op'.buf) = Len(op.buf)
        /\ key \in DOMAIN texture_cache.cache_entries
        /\ texture_cache.cache_entries[key].access_count = 1
        /\ ~texture_cache.cache_entries[key].is_prefetched

\* A read_texture of a non-resident key, with room in VRAM for a texture,
\* returns true and leaves the key resident.
FirstReadLoads ==
    (/\ ReadsSlice
     /\ cache_key(op'.a, op'.b) \notin DOMAIN texture_cache.cache_entries
     /\ mem_allocate(memory, TEXTURE_SIZE).ret # 0) =>
        /\ op'.ok
        /\ cache_key(op'.a, op'.b) \in DOMAIN texture_cache'.cache_entries

\* The repeated read returns true and is counted as a hit, not as a miss.
RepeatedReadHits ==
    /\ op'.ok
    /\ texture_cache'.metrics.cache_hits = texture_cache.metrics.cache_hits + 1
    /\ texture_cache'.metrics.cache_misses = texture_cache.metrics.cache_misses

Prefetches == op'.name = "prefetch_texture" /\ steps' = steps + 1

\* The step is a prefetch_texture call that repeats the call before it.
RepeatsPrefetch ==
    /\ Prefetches
    /\ op.name = "prefetch_texture"
    /\ op'.a = op.a
    /\ op'.b = op.b

\* A prefetch_texture of a resident key changes nothing.
PrefetchOfResidentKey ==
    (Prefetches /\ cache_key(op'.a, op'.b) \in DOMAIN texture_cache.cache_entries) =>
        (texture_cache' = texture_cache /\ memory' = memory)

\* C18 as claimed: prefetch_texture(t, m); prefetch_texture(t, m) leaves
\* exactly one resident entry for the key, and the second call changes
\* nothing; prefetch_texture of a resident key is a no-op.
C18_PrefetchTwiceLeavesOneEntry ==
    [][/\ PrefetchOfResidentKey
       /\ RepeatsPrefetch =>
              /\ cache_key(op'.a, op'.b) \in DOMAIN texture_cache'.cache_entries
              /\ texture_cache' = texture_cache
              /\ memory' = memory]_vars

\* C18 as amended: ... leaves exactly one resident entry for the key unless
\* VRAM has no room for the texture, in which case it leaves none; in both
\* cases the second call changes nothing; prefetch_texture of a resident key
\* is a no-op.
C18_PrefetchIdempotent ==
    [][/\ PrefetchOfResidentKey
       /\ RepeatsPrefetch =>
              /\ \/ cache_key(op'.a, op'.b) \in DOMAIN texture_cache'.cache_entries
                 \/ mem_allocate(memory', TEXTURE_SIZE).ret = 0
              /\ texture_cache' = texture_cache
              /\ memory' = memory]_vars

\* Two operations on a fresh cache, the second a prefetch_texture; one texture
\* has been loaded, and it is resident under the key of the call as a
\* prefetched entry.
C18_Witness ==
    LET key == cache_key(op.a, op.b)
    IN  /\ op.name = "prefetch_texture"
        /\ steps = 2
        /\ DOMAIN texture_cache.cache_entries = {key}
        /\ texture_cache.cache_entries[key].is_prefetched
        /\ texture_cache.current_cache_size_bytes = TEXTURE_SIZE
        /\ texture_cache.metrics.bytes_transferred = TEXTURE_SIZE
        /\ memory.next_allocation_address = FIRST_ALLOCATION_ADDRESS + TEXTURE_SIZE

\* The step is a flush call.
Flushes == op'.name = "flush" /\ steps' = steps + 1

\* C19: after flush no entry is resident, current_cache_size_bytes is 0 and
\* so is the utilization get_metrics reports, the prefetch queue is empty, and
\* the allocation record of every entry that was resident is gone from the
\* memory hierarchy; a flush after a flush changes nothing.
C19_FlushReleasesEverything ==
    [][Flushes =>
         /\ DOMAIN texture_cache'.cache_entries = {}
         /\ texture_cache'.current_cache_size_bytes = 0
         /\ cache_utilization_percent(texture_cache') = 0
         /\ texture_cache'.prefetch_queue = <<>>
         /\ \A k \in DOMAIN texture_cache.cache_entries :
                texture_cache.cache_entries[k].address \notin DOMAIN memory'.allocations
         /\ flush([tc |-> texture_cache', mem |-> memory']) =
                [tc |-> texture_cache', mem |-> memory']
         /\ op.name = "flush" => (texture_cache' = texture_cache /\ memory' = memory)]_vars

\* flush has emptied a cache that held textures: regions have been handed
\* out, the last operation is a flush, and no allocation record is left.
C19_Witness ==
    /\ op.name = "flush"
    /\ DOMAIN texture_cache.cache_entries = {}
    /\ texture_cache.metrics.bytes_transferred >= 2 * TEXTURE_SIZE
    /\ memory.next_allocation_address >= FIRST_ALLOCATION_ADDRESS + 2 * TEXTURE_SIZE
    /\ DOMAIN memory.allocations = {}

\* The step is a read_texture call that takes the miss path and whose
\* MemoryHierarchy::allocate call returns 0.
ReadMissWithoutVram ==
    /\ op'.name = "read_texture"
    /\ steps' = steps + 1
    /\ texture_cache'.metrics.cache_misses = texture_cache.metrics.cache_misses + 1
    /\ mem_allocate(memory, Max(Len(op'.buf), TEXTURE_SIZE)).ret = 0

\* The step is a prefetch_texture call of a key that is not resident and
\* whose MemoryHierarchy::allocate call returns 0.
PrefetchWithoutVram ==
    /\ Prefetches
    /\ cache_key(op'.a, op'.b) \notin DOMAIN texture_cache.cache_entries
    /\ mem_allocate(memory, TEXTURE_SIZE).ret = 0

\* C20: when allocate returns 0 during a read_texture miss, read_texture
\* returns false and the resident entries and current_cache_size_bytes are
\* unchanged; when it returns 0 during prefetch_texture, no entry is inserted
\* and nothing changes (the queue is drained).
C20_ExhaustionPropagates ==
    [][/\ ReadMissWithoutVram =>
              /\ ~op'.ok
              /\ DOMAIN texture_cache'.cache_entries = DOMAIN texture_cache.cache_entries
              /\ \A k \in DOMAIN texture_cache.cache_entries :
                     /\ texture_cache'.cache_entries[k].address =
                            texture_cache.cache_entries[k].address
                     /\ texture_cache'.cache_entries[k].data =
                            texture_cache.cache_entries[k].data
              /\ texture_cache'.current_cache_size_bytes =
                     texture_cache.current_cache_size_bytes
              /\ memory'.allocations = memory.allocations
       /\ PrefetchWithoutVram =>
              /\ texture_cache' = texture_cache
              /\ memory' = memory
              /\ texture_cache'.prefetch_queue = <<>>]_vars

\* A read_texture of a key that is not resident has failed for lack of VRAM:
\* the allocator is at the end of VRAM and a texture is still resident.
C20_Witness ==
    /\ op.name = "read_texture"
    /\ ~op.ok
    /\ cache_key(op.a, op.b) \notin DOMAIN texture_cache.cache_entries
    /\ DOMAIN texture_cache.cache_entries # {}
    /\ mem_allocate(memory, TEXTURE_SIZE).ret = 0
    /\ texture_cache.metrics.cache_misses >
           (VRAM_SIZE - FIRST_ALLOCATION_ADDRESS) \div TEXTURE_SIZE

\* The recorded hits and misses of a cache, 0 where none are recorded
RecordedHits(c) ==
    IF c \in DOMAIN perf_monitor.cache_hits THEN perf_monitor.cache_hits[c] ELSE 0
RecordedMisses(c) ==
    IF c \in DOMAIN perf_monitor.cache_misses THEN perf_monitor.cache_misses[c] ELSE 0
\* The caches with at least one recorded access
RecordedCaches == {c \in CacheNames : RecordedHits(c) + RecordedMisses(c) > 0}

\* C21: check_performance_alerts returns an alert for the rule
\* "<cache>_hit_rate" of a cache with at least one recorded access exactly
\* when hits / (hits + misses) of that cache is below the rule's threshold.
C21_HitRateAlerts ==
    op.name = "check_performance_alerts" =>
        \A c \in RecordedCaches :
            LET metric == c \o UNDERSCORE_HIT_RATE
            IN  metric \in DOMAIN perf_monitor.performance_thresholds =>
                    ((\E alert \in op.ret : alert.metric = metric)
                     <=> FracLess(<<RecordedHits(c), RecordedHits(c) + RecordedMisses(c)>>,
                                  <<perf_monitor.performance_thresholds[metric], 100>>))

\* hits / (hits + misses) of the caches with at least one recorded access
RecordedHitRates ==
    [c \in RecordedCaches |-> <<RecordedHits(c), RecordedHits(c) + RecordedMisses(c)>>]

\* C22: the report has a hit-rate entry hits / (hits + misses) for every cache
\* with at least one recorded access, hit or miss, and memory_efficiency is
\* the mean of the hit rates of all recorded caches.
C22_ReportHitRates ==
    op.name = "generate_report" =>
        /\ \A c \in RecordedCaches :
               /\ c \in DOMAIN op.ret.cache_hit_rates
               /\ FracEq(op.ret.cache_hit_rates[c], RecordedHitRates[c])
        /\ RecordedCaches # {} =>
               LET total == SumFractions(RecordedHitRates, RecordedCaches)
               IN  FracEq(op.ret.memory_efficiency,
                          <<total[1], total[2] * Cardinality(RecordedCaches)>>)

\* The step is a read of the stand-alone cache.
CacheReads == op'.name = "cache_read" /\ steps' = steps + 1

\* The slots <<set, way>> of the stand-alone cache
CacheSlots == (0..(cache.num_sets - 1)) \X (1..cache.associativity)

\* The slots whose line the step changed
ChangedSlots ==
    {x \in CacheSlots : cache'.cache_sets[x[1]][x[2]] # cache.cache_sets[x[1]][x[2]]}

\* C23: a read that misses returns false and leaves every line of every set
\* unchanged, changing only access_count and miss_count; a read that hits
\* changes only the last-access stamp of the line it hits and the counters.
C23_ReadDoesNotFill ==
    [][CacheReads =>
         /\ cache'.access_count = cache.access_count + 1
         /\ DOMAIN cache'.cache_sets = DOMAIN cache.cache_sets
         /\ ~op'.ok =>
                /\ ChangedSlots = {}
                /\ cache' = [cache EXCEPT !.access_count = @ + 1, !.miss_count = @ + 1]
         /\ op'.ok =>
                /\ cache'.hit_count = cache.hit_count + 1
                /\ cache'.miss_count = cache.miss_count
                /\ Cardinality(ChangedSlots) <= 1
                /\ \A x \in ChangedSlots :
                       LET old == cache.cache_sets[x[1]][x[2]]
                       IN  /\ old.present /\ old.valid
                           /\ old.address = AlignDown(op'.a, cache.line_size)
                           /\ x[1] = get_set_index(cache, op'.a)
                           /\ cache'.cache_sets[x[1]][x[2]] =
                                  [old EXCEPT !.access_time = cache'.access_count]]_vars

\* A read has hit after an earlier read missed and a write installed a line.
C23_Witness ==
    /\ op.name = "cache_read"
    /\ op.ok
    /\ cache.hit_count = 1
    /\ cache.miss_count = 2
    /\ cache.access_count = 3

\* The step is a write of the stand-alone cache that misses.
CacheWriteMisses ==
    /\ op'.name = "cache_write"
    /\ steps' = steps + 1
    /\ cache'.miss_count = cache.miss_count + 1

\* The ways of set s that hold no valid line
FreeWays(c, s) ==
    {i \in 1..c.associativity : ~c.cache_sets[s][i].present \/ ~c.cache_sets[s][i].valid}

\* The stamps of the valid lines of every set are pairwise distinct.
DistinctStamps(c) ==
    \A s \in DOMAIN c.cache_sets :
        \A i, j \in (1..c.associativity) \ FreeWays(c, s) :
            c.cache_sets[s][i].access_time = c.cache_sets[s][j].access_time => i = j

\* C24: a write that misses puts the new line into the first empty or invalid
\* slot of its set if there is one, and otherwise replaces the valid line of
\* the set with the smallest last-access stamp; the stamps of the valid lines
\* of a set are pairwise distinct, and no line of another set is replaced.
C24_LruReplacement ==
    [][/\ DistinctStamps(cache')
       /\ CacheWriteMisses =>
              LET s == get_set_index(cache, op'.a)
                  free == FreeWays(cache, s)
                  ways == 1..cache.associativity
              IN  /\ \A x \in ChangedSlots : x[1] = s
                  /\ Cardinality(ChangedSlots) = 1
                  /\ \A x \in ChangedSlots :
                         /\ cache'.cache_sets[s][x[2]].valid
                         /\ cache'.cache_sets[s][x[2]].address =
                                AlignDown(op'.a, cache.line_size)
                         /\ free # {} => (x[2] \in free /\ \A j \in free : x[2] <= j)
                         /\ free = {} =>
                                \A j \in ways \ {x[2]} :
                                    cache.cache_sets[s][x[2]].access_time <
                                        cache.cache_sets[s][j].access_time]_vars

\* A write to a full set has replaced the line in the second way, the first
\* way holding the line touched more recently: lines 0 and 8 were written,
\* line 0 was touched again, and the write of line 16 has replaced line 8.
C24_Witness ==
    /\ op.name = "cache_write"
    /\ op.a = 16
    /\ cache.miss_count = 3
    /\ cache.hit_count = 1
    /\ cache.cache_sets[0][1].valid /\ cache.cache_sets[0][1].address = 0
    /\ cache.cache_sets[0][2].valid /\ cache.cache_sets[0][2].address = 16

\* The ways of the request's set that hold the request's line, valid
LineWays(c, address) ==
    {i \in 1..c.associativity :
        LET line == c.cache_sets[get_set_index(c, address)][i]
        IN  line.present /\ line.valid /\ line.address = AlignDown(address, c.line_size)}

\* C25: a read hit of n bytes at offset o of a line copies min(n, line_size - o)
\* bytes of the payload, from o on, into the buffer, leaves the rest of the
\* buffer as it was and reports success; a write stores the first
\* min(n, line_size - o) bytes of its data into the line, from o on, and
\* nothing else.
C25_CopyWithinLine ==
    [][LET o == op'.a % cache.line_size
           n == op'.b
           copy_size == Min(n, cache.line_size - o)
           s == get_set_index(cache, op'.a)
       IN  /\ (CacheReads /\ LineWays(cache, op'.a) # {}) =>
                  /\ op'.ok
                  /\ Len(op'.buf) = n
                  /\ \E i \in LineWays(cache, op'.a) :
                         \A k \in 1..n :
                             op'.buf[k] = IF k <= copy_size
                                          THEN cache.cache_sets[s][i].data[o + k - 1]
                                          ELSE BUF_FILL
           /\ (op'.name = "cache_write" /\ steps' = steps + 1) =>
                  /\ Cardinality(LineWays(cache', op'.a)) = 1
                  /\ ChangedSlots \subseteq {<<s, i>> : i \in LineWays(cache', op'.a)}
                  /\ \A i \in LineWays(cache', op'.a) :
                         \A b \in 0..(cache.line_size - 1) :
                             cache'.cache_sets[s][i].data[b] =
                                 IF b >= o /\ b < o + copy_size
                                 THEN op'.buf[b - o + 1]
                                 ELSE IF i \in LineWays(cache, op'.a)
                                 THEN cache.cache_sets[s][i].data[b]
                                 ELSE 0]_vars

\* A 2-byte read at the last byte of a line has hit: the first byte of the
\* buffer is the byte a 2-byte write stored there, the second is untouched.
C25_Witness ==
    /\ op.name = "cache_read"
    /\ op.ok
    /\ op.a % cache.line_size = cache.line_size - 1
    /\ op.b = 2
    /\ op.buf[1] \notin {0, BUF_FILL}
    /\ op.buf[2] = BUF_FILL

\* The ways of c that hold the line of address, valid and dirty, with the
\* bytes of data that fit into the line stored from the address on
HoldsWritten(c, address, data) ==
    {i \in LineWays(c, address) :
        LET line == c.cache_sets[get_set_index(c, address)][i]
            o == address % c.line_size
        IN  /\ line.dirty
            /\ \A k \in 1..Min(Len(data), c.line_size - o) : line.data[o + k - 1] = data[k]}

ReturnedRegions ==
    {<<alloc_log[i][2], aligned_size(alloc_log[i][1])>> : i \in 1..Len(alloc_log)}

\* C27: next_address never decreases and deallocate never changes it; an
\* address returned by a successful allocate lies in no region returned by
\* an earlier allocate, deallocated or not; and when allocate(s) returns 0
\* before a step, allocate(s2) returns 0 after it for every s2 >= s.
C27_NoReuseOfFreedVram ==
    [][/\ memory'.next_allocation_address >= memory.next_allocation_address
       /\ (op'.name = "deallocate") =>
              memory'.next_allocation_address = memory.next_allocation_address
       /\ (op'.name = "allocate" /\ op'.ok) =>
              \A r \in ReturnedRegions :
                  ~(r[1] <= op'.ret /\ op'.ret < r[1] + r[2])
       /\ \A s, s2 \in AllocSizes :
              (s2 >= s /\ mem_allocate(memory, s).ret = 0) =>
                  mem_allocate(memory', s2).ret = 0]_vars

Invalidates == op'.name = "invalidate_texture" /\ steps' = steps + 1

\* The keys of the resident entries whose texture_id field is texture_id
KeysOfTexture(tc, texture_id) ==
    {k \in DOMAIN tc.cache_entries : tc.cache_entries[k].texture_id = texture_id}

\* C28: invalidate_texture(t) removes exactly the resident entries whose
\* texture_id is t: none of them is resident afterwards, every other entry
\* is unchanged, current_cache_size_bytes decreases by the payload bytes of
\* the removed entries, and the allocation record of each removed entry is
\* gone from the memory hierarchy.
C28_InvalidateRemovesExactly ==
    [][Invalidates =>
         LET removed == KeysOfTexture(texture_cache, op'.a)
         IN  /\ KeysOfTexture(texture_cache', op'.a) = {}
             /\ DOMAIN texture_cache'.cache_entries =
                    (DOMAIN texture_cache.cache_entries) \ removed
             /\ \A k \in DOMAIN texture_cache'.cache_entries :
                    texture_cache'.cache_entries[k] = texture_cache.cache_entries[k]
             /\ texture_cache'.current_cache_size_bytes =
                    texture_cache.current_cache_size_bytes
                        - PayloadBytes(texture_cache.cache_entries, removed)
             /\ \A k \in removed :
                    texture_cache.cache_entries[k].address
                        \notin DOMAIN memory'.allocations]_vars

\* invalidate_texture(1) has removed the entry of texture 1 and kept the
\* entry of texture 2
C28_Witness ==
    /\ op.name = "invalidate_texture"
    /\ op.a = 1
    /\ steps = 1
    /\ DOMAIN texture_cache.cache_entries = {cache_key(2, 0)}
    /\ texture_cache.current_cache_size_bytes = TEXTURE_SIZE
    /\ Cardinality(DOMAIN memory.allocations) = 1

TextureReads == op'.name = "read_texture" /\ steps' = steps + 1

\* C29: every read_texture call, whatever its outcome, appends one
\* AccessPattern for its (texture_id, mip_level) to the history, discarding
\* the oldest record first when the history is full; the history never
\* holds more than max_pattern_history records, and no other operation
\* changes it, so its last record describes the most recent read_texture.
C29_AccessHistory ==
    [][LET h == texture_cache.recent_accesses
           limit == texture_cache.max_pattern_history
       IN  /\ TextureReads =>
                  texture_cache'.recent_accesses =
                      Append(IF Len(h) >= limit THEN Tail(h) ELSE h,
                             [texture_id |-> op'.a, mip_level |-> op'.b,
                              timestamp |-> now])
           /\ ~TextureReads => texture_cache'.recent_accesses = h
           /\ Len(texture_cache'.recent_accesses) <= texture_cache'.max_pattern_history
           /\ texture_cache'.max_pattern_history = limit]_vars

\* A read_texture that failed for lack of VRAM was recorded in a full
\* history, from which the oldest record was dropped
C29_Witness ==
    LET h == texture_cache.recent_accesses
    IN  /\ op.name = "read_texture"
        /\ ~op.ok
        /\ steps = 1
        /\ Len(h) = texture_cache.max_pattern_history
        /\ h[Len(h)].texture_id = op.a
        /\ h[Len(h)].mip_level = op.b
        /\ h[1].texture_id = 3
        /\ cache_key(op.a, op.b) \notin DOMAIN texture_cache.cache_entries

\* The keys of the resident entries marked as prefetched
PrefetchedKeys(tc) ==
    {k \in DOMAIN tc.cache_entries : tc.cache_entries[k].is_prefetched}

\* C30: a read_texture after which fewer than 3 accesses are recorded
\* issues no prefetch: it creates no entry with is_prefetched = true and
\* allocates VRAM for no key but its own.  On a fresh TextureCache these
\* are the first two read_texture calls.
C30_NoPrefetchBeforeThreeAccesses ==
    [][(TextureReads /\ Len(texture_cache'.recent_accesses) < 3) =>
          /\ PrefetchedKeys(texture_cache') \subseteq PrefetchedKeys(texture_cache)
          /\ \A k \in PrefetchedKeys(texture_cache') :
                 texture_cache'.cache_entries[k].address =
                     texture_cache.cache_entries[k].address
          /\ (DOMAIN texture_cache'.cache_entries) \ (DOMAIN texture_cache.cache_entries)
                 \subseteq {cache_key(op'.a, op'.b)}]_vars

\* The second read_texture on a fresh cache was a hit on the texture read
\* first, with smart prefetching on, and nothing was prefetched
C30_Witness ==
    /\ op.name = "read_texture"
    /\ steps = 2
    /\ Len(texture_cache.recent_accesses) = 2
    /\ texture_cache.recent_accesses[1].texture_id = texture_cache.recent_accesses[2].texture_id
    /\ texture_cache.smart_prefetching_enabled
    /\ texture_cache.metrics.cache_hits = 1
    /\ texture_cache.metrics.cache_misses = 1
    /\ PrefetchedKeys(texture_cache) = {}

\* C31: a read_texture made with smart prefetching enabled runs the pattern
\* predictor, on a hit and on a miss alike: when it leaves at least 3
\* recorded accesses whose last two share the texture id t and the last mip
\* level m has m + 1 < 16, the key (t, m + 1) is resident afterwards; a
\* read_texture made with smart prefetching disabled inserts no entry with
\* is_prefetched = true.
C31_PredictorRunsAfterEveryRead ==
    [][TextureReads =>
         LET h == texture_cache'.recent_accesses
             n == Len(h)
         IN  /\ (/\ texture_cache.smart_prefetching_enabled
                 /\ n >= 3
                 /\ h[n - 1].texture_id = h[n].texture_id
                 /\ h[n].mip_level + 1 < MIP_LIMIT) =>
                    cache_key(h[n].texture_id, h[n].mip_level + 1)
                        \in DOMAIN texture_cache'.cache_entries
             /\ ~texture_cache.smart_prefetching_enabled =>
                    PrefetchedKeys(texture_cache') \subseteq PrefetchedKeys(texture_cache)]_vars

Tunes == op'.name = "tune_performance_parameters" /\ steps' = steps + 1

\* hits / max(1, hits + misses) as a fraction
RateOf(hits, misses) == <<hits, Max(1, hits + misses)>>

\* value limited to [low, high]
Clamp(value, low, high) == Max(low, Min(high, value))

\* The parameters, in hundredths, lie in [0.1, 1.0] and [0.5, 0.9]
ParametersInRange(tc) ==
    /\ 10 <= tc.prefetch_aggressiveness /\ tc.prefetch_aggressiveness <= 100
    /\ 50 <= tc.eviction_threshold /\ tc.eviction_threshold <= 90

\* C32: prefetch_aggressiveness stays in [0.1, 1.0] and eviction_threshold
\* in [0.5, 0.9]; a tune_performance_parameters call moves the first by
\* +0.1 when the prefetch efficiency is above 0.7, by -0.1 when it is below
\* 0.3, and the second by +0.05 when the hit rate is above 0.9, by -0.05
\* when it is below 0.7, each clamped to its range, and otherwise leaves
\* them alone.
C32_TuningStaysInRange ==
    [][/\ ParametersInRange(texture_cache)
       /\ ParametersInRange(texture_cache')
       /\ Tunes =>
              LET m == texture_cache.metrics
                  efficiency == RateOf(m.prefetch_hits, m.prefetch_misses)
                  rate == RateOf(m.cache_hits, m.cache_misses)
                  da == IF FracLess(<<7, 10>>, efficiency) THEN 10
                        ELSE IF FracLess(efficiency, <<3, 10>>) THEN 0 - 10 ELSE 0
                  de == IF FracLess(<<9, 10>>, rate) THEN 5
                        ELSE IF FracLess(rate, <<7, 10>>) THEN 0 - 5 ELSE 0
              IN  /\ texture_cache'.prefetch_aggressiveness =
                         Clamp(texture_cache.prefetch_aggressiveness + da, 10, 100)
                  /\ texture_cache'.eviction_threshold =
                         Clamp(texture_cache.eviction_threshold + de, 50, 90)]_vars

\* Seven tune_performance_parameters calls with a hit rate below 0.7 and no
\* prefetch hit have driven both parameters to their lower limits; the
\* seventh met them there
C32_Witness ==
    /\ op.name = "tune_performance_parameters"
    /\ steps = MaxTunes
    /\ texture_cache.metrics.cache_misses >= 1
    /\ texture_cache.prefetch_aggressiveness = 10
    /\ texture_cache.eviction_threshold = 50

\* Adaptive caching is on and the interval has elapsed since the last retune
RetuneDue(tc, t) ==
    /\ tc.adaptive_caching_enabled
    /\ t - tc.last_optimization_time >= tc.optimization_interval_ms

\* C33: a read_texture made while adaptive caching is enabled and at least
\* optimization_interval_ms have elapsed since the last retune, hit or
\* miss, runs tune_performance_parameters once on the updated counters and
\* sets the last-retune stamp to the current time; any other read_texture
\* leaves the stamp and both parameters unchanged.
C33_AdaptiveRetuning ==
    [][TextureReads =>
         LET tuned == tune_performance_parameters(
                          [texture_cache EXCEPT !.metrics = texture_cache'.metrics])
         IN  IF RetuneDue(texture_cache, now)
             THEN /\ texture_cache'.last_optimization_time = now
                  /\ texture_cache'.prefetch_aggressiveness = tuned.prefetch_aggressiveness
                  /\ texture_cache'.eviction_threshold = tuned.eviction_threshold
             ELSE /\ texture_cache'.last_optimization_time =
                         texture_cache.last_optimization_time
                  /\ texture_cache'.prefetch_aggressiveness =
                         texture_cache.prefetch_aggressiveness
                  /\ texture_cache'.eviction_threshold = texture_cache.eviction_threshold]_vars

\* A read_texture step on a resident key whose offset + size exceeds the
\* payload of the resident entry
OversizedReads ==
    /\ TextureReads
    /\ cache_key(op'.a, op'.b) \in DOMAIN texture_cache.cache_entries
    /\ op'.ret + Len(op'.buf) >
           Len(texture_cache.cache_entries[cache_key(op'.a, op'.b)].data)

\* The step counts one miss and no hit
CountsMiss ==
    /\ texture_cache'.metrics.cache_misses = texture_cache.metrics.cache_misses + 1
    /\ texture_cache'.metrics.cache_hits = texture_cache.metrics.cache_hits

\* The step allocates the region behind next_address for the key read and
\* the entry resident for the key afterwards is the one loaded into it
LoadsNewRegion ==
    LET key == cache_key(op'.a, op'.b)
        texture_size == Max(Len(op'.buf), TEXTURE_SIZE)
        base == memory.next_allocation_address
    IN  /\ base \in DOMAIN memory'.allocations
        /\ base \notin DOMAIN memory.allocations
        /\ memory'.allocations[base] = RoundUpExact(texture_size)
        /\ key \in DOMAIN texture_cache'.cache_entries
        /\ texture_cache'.cache_entries[key].address = base
        /\ Len(texture_cache'.cache_entries[key].data) = texture_size

\* C34 as stated: a read_texture on a resident key whose offset + size
\* exceeds the payload of the resident entry counts one miss and no hit,
\* allocates and fills a new region of max(size, 1 MiB) bytes, and leaves
\* one entry resident for the key.
C34_OversizedReadAllocates ==
    [][OversizedReads => (CountsMiss /\ LoadsNewRegion)]_vars

\* C34, amended: such a read_texture counts one miss and no hit; when the
\* region of max(size, 1 MiB) bytes fits behind next_address it returns
\* true, the region is allocated and the entry resident for the key is the
\* one loaded into it; otherwise it returns false, allocates nothing and
\* the entry resident before stays, with its region and payload.
C34_OversizedReadIsMiss ==
    [][OversizedReads =>
         LET key == cache_key(op'.a, op'.b)
             texture_size == Max(Len(op'.buf), TEXTURE_SIZE)
             fits == memory.next_allocation_address + RoundUpExact(texture_size)
                         <= VRAM_SIZE
         IN  /\ CountsMiss
             /\ op'.ok = fits
             /\ fits => LoadsNewRegion
             /\ ~fits =>
                    /\ memory'.allocations = memory.allocations
                    /\ memory'.next_allocation_address = memory.next_allocation_address
                    /\ DOMAIN texture_cache'.cache_entries =
                           DOMAIN texture_cache.cache_entries
                    /\ texture_cache'.cache_entries[key].address =
                           texture_cache.cache_entries[key].address
                    /\ texture_cache'.cache_entries[key].data =
                           texture_cache.cache_entries[key].data]_vars

\* The second read_texture of texture 1 ran past the payload loaded by the
\* first and replaced the entry by one in a new region
C34_Witness ==
    /\ op.name = "read_texture"
    /\ op.ok
    /\ steps = 2
    /\ op.ret + Len(op.buf) > TEXTURE_SIZE
    /\ texture_cache.metrics.cache_misses = 3
    /\ texture_cache.metrics.cache_hits = 5
    /\ cache_key(1, 0) \in DOMAIN texture_cache.cache_entries
    /\ texture_cache.cache_entries[cache_key(1, 0)].address =
           FIRST_ALLOCATION_ADDRESS + 3 * TEXTURE_SIZE

\* history with sample appended, the oldest sample dropped first when the
\* history holds max_history_size samples
Pushed(history, sample) ==
    Append(IF Len(history) >= perf_monitor.max_history_size
           THEN Tail(history) ELSE history, sample)

\* The timing history of event, empty when none was recorded
TimingHistory(pm, event) ==
    IF event \in DOMAIN pm.timing_history THEN pm.timing_history[event] ELSE <<>>

\* C35: every timing history and the frame-time, triangle-count and
\* fragment-count histories hold at most max_history_size samples, the
\* three frame histories have equal length, and an end_timer of a started
\* event or a record_frame_metrics appends its sample after dropping the
\* oldest one from a full history.
C35_BoundedFifoHistories ==
    [][/\ \A e \in DOMAIN perf_monitor'.timing_history :
              Len(perf_monitor'.timing_history[e]) <= perf_monitor'.max_history_size
       /\ Len(perf_monitor'.frame_times) <= perf_monitor'.max_history_size
       /\ Len(perf_monitor'.triangle_counts) = Len(perf_monitor'.frame_times)
       /\ Len(perf_monitor'.fragment_counts) = Len(perf_monitor'.frame_times)
       /\ (op'.name = "record_frame_metrics" /\ steps' = steps + 1) =>
              /\ perf_monitor'.frame_times = Pushed(perf_monitor.frame_times, op'.a)
              /\ perf_monitor'.triangle_counts = Pushed(perf_monitor.triangle_counts, op'.b)
              /\ perf_monitor'.fragment_counts = Pushed(perf_monitor.fragment_counts, op'.ret)
       /\ (op'.name = "end_timer" /\ steps' = steps + 1) =>
              \A e \in Events :
                  TimingHistory(perf_monitor', e) =
                      IF e = op'.a /\ op'.ok
                      THEN Pushed(TimingHistory(perf_monitor, e), op'.b)
                      ELSE TimingHistory(perf_monitor, e)]_vars

\* An end_timer met the full "load" history <<1, 2, 1>> and dropped its
\* oldest sample, after a record_frame_metrics had done the same to the
\* full frame histories
C35_Witness ==
    /\ op.name = "end_timer"
    /\ op.ok
    /\ TimingHistory(perf_monitor, "load") = <<2, 1, 2>>
    /\ perf_monitor.frame_times = <<20, 0, 20>>
    /\ perf_monitor.triangle_counts = <<3, 1, 3>>
    /\ perf_monitor.fragment_counts = <<4, 2, 4>>

\* cache_hits and cache_misses after the step, less their values before
CounterSteps ==
    <<texture_cache'.metrics.cache_hits - texture_cache.metrics.cache_hits,
      texture_cache'.metrics.cache_misses - texture_cache.metrics.cache_misses>>

\* C36: a read_texture call, successful or not, increments exactly one of
\* cache_hits and cache_misses by 1; reset_metrics sets both to 0 and no
\* other operation changes them, so that their sum counts the read_texture
\* calls since the last reset_metrics; the hit rate get_metrics reports
\* lies in [0, 1].
C36_OneCounterPerRead ==
    [][/\ TextureReads => CounterSteps \in {<<1, 0>>, <<0, 1>>}
       /\ (op'.name = "reset_metrics" /\ steps' = steps + 1) =>
              /\ texture_cache'.metrics.cache_hits = 0
              /\ texture_cache'.metrics.cache_misses = 0
       /\ ~(TextureReads \/ (op'.name = "reset_metrics" /\ steps' = steps + 1)) =>
              CounterSteps = <<0, 0>>
       /\ ~FracLess(get_metrics_hit_rate(texture_cache'), <<0, 1>>)
       /\ ~FracLess(<<1, 1>>, get_metrics_hit_rate(texture_cache'))]_vars

\* After at least three reads and a reset_metrics, a read_texture that
\* missed is the one access counted
C36_Witness ==
    /\ op.name = "read_texture"
    /\ op.ok
    /\ steps = 2
    /\ texture_cache.metrics.bytes_transferred > 0
    /\ texture_cache.metrics.cache_hits = 0
    /\ texture_cache.metrics.cache_misses = 1
    /\ Len(texture_cache.recent_accesses) = DEFAULT_PATTERN_HISTORY_SIZE

\* C37: when read_texture(t, m, offset, buf) returns true, buf holds the
\* bytes [offset, offset + |buf|) of the entry for (t, m): the entry
\* resident on return, or the entry that was hit when the prefetch issued
\* by the same call has evicted it.
C37_TrueMeansCopied ==
    [][(TextureReads /\ op'.ok) =>
          LET key == cache_key(op'.a, op'.b)
              entries == IF key \in DOMAIN texture_cache'.cache_entries
                         THEN texture_cache'.cache_entries
                         ELSE texture_cache.cache_entries
          IN  /\ key \in DOMAIN entries
              /\ op'.ret + Len(op'.buf) <= Len(entries[key].data)
              /\ op'.buf = copy_slice(entries[key].data, op'.ret, op'.buf)]_vars

\* C38: the allocation bases recorded in the memory hierarchy are exactly
\* the addresses of the resident entries.
C38_NoRegionLeak ==
    DOMAIN memory.allocations =
        {texture_cache.cache_entries[k].address : k \in DOMAIN texture_cache.cache_entries}

\* A read_texture step served as a hit
TextureHits == TextureReads /\ CounterSteps = <<1, 0>>

\* C39: prefetch_misses is 0 and prefetch_hits is at most cache_hits; a hit
\* increments prefetch_hits exactly when the entry hit is marked
\* is_prefetched, and no other step increments it; an entry that stays
\* resident in its region keeps the mark; so the prefetch efficiency that
\* get_metrics reports is 0 while prefetch_hits is 0 and 1 otherwise.
C39_PrefetchCounters ==
    [][LET m == texture_cache'.metrics
           old == texture_cache.cache_entries
           new == texture_cache'.cache_entries
       IN  /\ m.prefetch_misses = 0
           /\ m.prefetch_hits <= m.cache_hits
           /\ TextureHits =>
                  m.prefetch_hits = texture_cache.metrics.prefetch_hits +
                      (IF old[cache_key(op'.a, op'.b)].is_prefetched THEN 1 ELSE 0)
           /\ ~TextureHits => m.prefetch_hits <= texture_cache.metrics.prefetch_hits
           /\ \A k \in (DOMAIN old) \cap (DOMAIN new) :
                  (old[k].address = new[k].address /\ old[k].is_prefetched) =>
                      new[k].is_prefetched
           /\ FracEq(get_metrics_prefetch_efficiency(texture_cache'),
                     IF m.prefetch_hits = 0 THEN <<0, 1>> ELSE <<1, 1>>)]_vars

\* Hits of a prefetched entry were followed by a miss and a hit of an entry
\* loaded on demand: prefetch_hits lies strictly between 0 and cache_hits
C39_Witness ==
    /\ op.name = "read_texture"
    /\ op.ok
    /\ steps = 2
    /\ texture_cache.metrics.prefetch_hits > 0
    /\ texture_cache.metrics.prefetch_hits < texture_cache.metrics.cache_hits
    /\ texture_cache.metrics.cache_misses = 1

\* The resident entries that were never read, as the eviction loop of the
\* step's operation sees them
NeverReadKeys ==
    {k \in DOMAIN texture_cache.cache_entries : EntryAtEviction(k).access_count = 0}

\* C40: the entry prefetch_texture inserts has access_count 0 and is marked
\* is_prefetched; resident entries with access_count 0 are prefetched
\* entries, and their priority score (0) is below that of every entry that
\* was read; an operation evicts an entry that was read only after every
\* resident never-read prefetched entry.
C40_NeverReadEvictedFirst ==
    [][/\ Prefetches =>
              \A k \in (DOMAIN texture_cache'.cache_entries)
                           \ (DOMAIN texture_cache.cache_entries) :
                  /\ texture_cache'.cache_entries[k].access_count = 0
                  /\ texture_cache'.cache_entries[k].is_prefetched
       /\ \A k \in DOMAIN texture_cache'.cache_entries :
              LET e == texture_cache'.cache_entries[k]
              IN  e.access_count = 0 =>
                     /\ e.is_prefetched
                     /\ \A j \in DOMAIN texture_cache'.cache_entries :
                            texture_cache'.cache_entries[j].access_count >= 1 =>
                                score_less(e, texture_cache'.cache_entries[j], now')
       /\ \A e \in EvictedKeys :
              EntryAtEviction(e).access_count >= 1 => NeverReadKeys \subseteq EvictedKeys
       /\ (EvictedKeys # {} /\ Cardinality(EvictedKeys) <= Cardinality(NeverReadKeys)) =>
              EvictedKeys \subseteq NeverReadKeys]_vars

\* In the eviction scenario prefetch_texture(3, 0) was followed by a miss on
\* texture 1, which evicted the never-read entry of texture 3 and kept the
\* entry of texture 2, read five times
C40_Witness ==
    /\ op.name = "read_texture"
    /\ op.ok
    /\ steps = 2
    /\ texture_cache.metrics.cache_misses = 2
    /\ memory.next_allocation_address = FIRST_ALLOCATION_ADDRESS + 4 * TEXTURE_SIZE
    /\ DOMAIN texture_cache.cache_entries = {cache_key(1, 0), cache_key(2, 0)}
    /\ ~texture_cache.cache_entries[cache_key(1, 0)].is_prefetched
    /\ texture_cache.cache_entries[cache_key(2, 0)].access_count = 5

=============================================================================
